---- MODULE Spec2Model ----
(***************************************************************************)
(* Verification model of as3rg/tape-sort.                                  *)
(*                                                                         *)
(*   * the tape device (lib/include/tape.h): a positional cursor over a    *)
(*     seekable byte stream, one cell = VALUE_SIZE bytes;                  *)
(*   * the tape primitives and the two sort forms (lib/include/sorter.h).  *)
(*                                                                         *)
(* The specifications share the tape operators:                            *)
(*   TapeSpec  one tape object `a` (plus a default-constructed `b` used as *)
(*             a move target) driven by an arbitrary caller, on a device   *)
(*             whose writes may break off;                                 *)
(*   Spec      one call of sort(in, out, cmp) or                           *)
(*             sort(in, out, tmp1, tmp2, tmp3, chunk_size, cmp);           *)
(*   LiveSpec  Spec, with the calling thread running until sort() returns  *)
(*             or raises;                                                  *)
(*   FaultSpec Spec, with one tape on a device that fails a write;         *)
(*   MoveSpec  one tape that its caller writes and moves to another, by    *)
(*             assignment or by construction;                              *)
(*   DelaySpec one seek() on a long tape, for the time it sleeps;          *)
(*   TransferSpec one call of vec_to_tape(vec, t) followed by one call of  *)
(*             tape_to_vec(t, size) on the same tape;                      *)
(*   SampleSpec one subarray_info updated with distinct values, the draws  *)
(*             of its generator on record;                                 *)
(*   GuardSpec file_guard objects (utilities/src/file-guard.cpp) that a    *)
(*             caller constructs, moves and destroys;                      *)
(*   MainSpec  one run of the tape-sort program (util/tape-sort.cpp), in   *)
(*             an environment where one of its I/O operations may fail.    *)
(***************************************************************************)
EXTENDS Integers, Sequences, FiniteSets, TLC

VARIABLES
  \* ---- TapeSpec ----
  tst,      \* "new" | "live" | "released" | "reread" | "rejected" |
            \* "aborted" | "idle" | "ready" | "sought"
  args,     \* constructor arguments of tape `a`
  tp,       \* [{"a","b"} -> tape]: the tape objects
  arr,      \* [{"a","b"} -> Seq(Int)]: reference array of each tape object
  ret,      \* the last call's return value, the error it raised, and (when it
            \* raised one) the method that raised it
  rel,      \* the stream handed back by release(), <<>> when the caller
            \* holds none
  fault,    \* the device that fails during sort(): the write number `after`
            \* + 1 on tape `tape` breaks off after `bytes` bytes
  \* ---- Spec ----
  pc,       \* "ram_read" | "ram_write" | "ingest" | "impl" | "done" |
            \* "io_error" | "aborted" | "idle" | "vec_to_tape" |
            \* "tape_to_vec" | "returned"
  form,     \* "ram" | "ext": which overload of sort() is running
  cmp,      \* the comparator passed to sort()
  chunk_size,
  tapes,    \* [TapeNames -> tape]
  info,     \* root subarray_info built by the ingestion loop
  vec,      \* the in-RAM std::vector<int32_t>
  vi,       \* vec_to_tape: how many elements of vec have been put
  stack,    \* activation records of helpers::sort_impl, innermost last
  entry,    \* the five tapes as they were when sort() was called
  ops,      \* [TapeNames -> [OpKinds -> Nat]]: tape methods invoked so far
  stat,     \* call counters of the sort (comparator, split, RAM loads, ...)
  \* ---- GuardSpec ----
  guards,   \* [GuardNames -> file_guard]: the guard objects
  files,    \* the paths that exist in the file system
  removed,  \* the <<guard, path>> pairs of the files a destructor removed
  \* ---- MainSpec ----
  proc      \* the tape-sort process: where main() is, and how it ended

tapeVars == <<tst, args, tp, arr, ret, rel, fault>>
sortVars == <<pc, form, cmp, chunk_size, tapes, info, vec, vi, stack, entry, ops, stat>>
utilVars == <<guards, files, removed, proc>>
vars == <<tapeVars, sortVars, utilVars>>

-----------------------------------------------------------------------------
(* Bounds of the model.                                                    *)

MaxSize  == 2   \* TapeSpec: largest tape size passed to the constructor
MaxN     == 3   \* Spec: largest number of input cells
MaxChunk == 2   \* Spec: largest chunk_size
MaxFault == 2   \* FaultSpec: most writes a tape takes before its device fails
MaxDepth == 4   \* Spec: deepest nesting of sort_impl activations explored
MaxUpdates == 4 \* SampleSpec: most calls of update() on one subarray_info
MaxTake  == 4   \* TransferSpec: largest size passed to tape_to_vec

-----------------------------------------------------------------------------
(* int32_t cells as bytes of the backing stream.                           *)

VALUE_SIZE == 4

\* std::numeric_limits<size_t>::max(); size_t is modelled 31 bits wide, the
\* widest unsigned range TLC's integers hold.
MAX_SIZE_T == 2147483647

\* reinterpret_cast<const char*>(&value): the object representation of an
\* int32_t, two's complement, least significant byte first.
EncodeValue(v) ==
  LET low == IF v < 0 THEN (v + 2147483647) + 1 ELSE v
      top == IF v < 0 THEN 128 ELSE 0
  IN  << low % 256,
         (low \div 256) % 256,
         (low \div 65536) % 256,
         (low \div 16777216) + top >>

\* reinterpret_cast<char*>(&buffer): the int32_t whose object representation
\* is the four bytes b.
DecodeValue(b) ==
  LET hi  == IF b[4] >= 128 THEN b[4] - 128 ELSE b[4]
      low == b[1] + 256 * b[2] + 65536 * b[3] + 16777216 * hi
  IN  IF b[4] >= 128 THEN (low - 2147483647) - 1 ELSE low

RECURSIVE EncodeCells(_)
EncodeCells(cs) ==
  IF cs = <<>> THEN <<>> ELSE EncodeValue(Head(cs)) \o EncodeCells(Tail(cs))

-----------------------------------------------------------------------------
(* The byte stream (std::iostream over a string buffer or a file).         *)

\* stream.seekg(p) / stream.seekp(p) from the beginning: a position past the
\* end of the stream cannot be reached and sets failbit.
StreamSeek(s, p) == p <= Len(s)

\* stream.seekg(p); stream.read(buf, VALUE_SIZE): fewer than VALUE_SIZE bytes
\* left sets failbit, and the caller sees !stream.  seek tells whether the
\* byte-seek succeeded and n how many bytes the read delivered.
StreamRead(s, p) ==
  IF p + VALUE_SIZE <= Len(s)
    THEN [ok |-> TRUE,  bytes |-> SubSeq(s, p + 1, p + VALUE_SIZE),
          seek |-> TRUE, n |-> VALUE_SIZE]
    ELSE [ok |-> FALSE, bytes |-> <<0, 0, 0, 0>>,
          seek |-> StreamSeek(s, p),
          n |-> IF StreamSeek(s, p) THEN Len(s) - p ELSE 0]

\* stream.seekp(p); stream.write(buf, VALUE_SIZE): overwrites in place and
\* grows the stream when the write runs past its end.
StreamWrite(s, p, b) ==
  IF StreamSeek(s, p)
    THEN [ok |-> TRUE, seek |-> TRUE,
          bytes |-> SubSeq(s, 1, p) \o b \o SubSeq(s, p + VALUE_SIZE + 1, Len(s))]
    ELSE [ok |-> FALSE, seek |-> FALSE, bytes |-> s]

-----------------------------------------------------------------------------
(* class tape<Stream>.  A tape is a record                                 *)
(*   pos, size, stream_offset, stream, consistent, buffer   the members    *)
(*   delays                                  the delay_config member       *)
(*   failbit                                 the stream's error state      *)
(*   rd, wr                                  READABLE / WRITABLE           *)
(*   io        what the call in progress did to the stream and the clock:  *)
(*             a sequence of [ev, arg] with ev "seekg" | "seekp" (arg 1 if *)
(*             the byte-seek succeeded, else 0), "read" | "write" (arg the *)
(*             bytes transferred) and "sleep" (arg the nanoseconds)        *)
(* Every method yields [t |-> tape after the call, val |-> returned value, *)
(* err |-> "none" | "io" (io_exception) | "arg" (std::invalid_argument) |  *)
(* "assert" (a failed assert())].                                          *)

Ok(t, v)   == [t |-> t, val |-> v, err |-> "none"]
Fail(t, e) == [t |-> t, val |-> 0, err |-> e]

\* delay_config{}: the default member initializers
NoDelays ==
  [read_delay |-> 0, write_delay |-> 0, rewind_step_delay |-> 0,
   rewind_delay |-> 0, next_delay |-> 0]

\* tape() = default
DefaultTape(rd, wr) ==
  [pos |-> 0, size |-> 0, stream_offset |-> 0, stream |-> <<>>,
   consistent |-> FALSE, buffer |-> 0, delays |-> NoDelays,
   failbit |-> FALSE, rd |-> rd, wr |-> wr, io |-> <<>>]

\* The call in progress did `ev` to the stream or the clock.
Emit(t, ev, arg) == [t EXCEPT !.io = Append(@, [ev |-> ev, arg |-> arg])]

\* The tape once the call has returned (or raised).
Quiet(t) == [t EXCEPT !.io = <<>>]

\* (mutant) a delay that is also slept through when the call raises
delay_also_on_error(r, constant_delay) ==
  IF constant_delay = 0 THEN r
  ELSE [r EXCEPT !.t = Emit(r.t, "sleep", constant_delay)]

\* tape::delay(constant_delay), at the end of the call that yielded r
delay(r, constant_delay) ==
  IF r.err # "none" \/ constant_delay = 0 THEN r
  ELSE [r EXCEPT !.t = Emit(r.t, "sleep", constant_delay)]

\* size_t arithmetic: the sum and the product modulo MAX_SIZE_T + 1, computed
\* without leaving the range 0 .. MAX_SIZE_T (the product by doubling)
WrapAdd(a, b) == IF a > MAX_SIZE_T - b THEN (a - (MAX_SIZE_T - b)) - 1 ELSE a + b

RECURSIVE WrapMul(_, _)
WrapMul(a, b) ==
  IF b = 0 THEN 0
  ELSE LET half == WrapMul(a, b \div 2)
           twice == WrapAdd(half, half)
       IN  IF b % 2 = 1 THEN WrapAdd(twice, a) ELSE twice

\* (mutant) the delay without the overflow tests: the size_t product and sum
rewind_ns_wraps(constant_delay, step_delay, steps) ==
  WrapAdd(WrapMul(step_delay, steps), constant_delay)

\* tape::delay(constant_delay, step_delay, steps): the nanoseconds it sleeps
rewind_ns(constant_delay, step_delay, steps) ==
  LET product == WrapMul(step_delay, steps)
      result_delay == IF steps # 0 /\ product \div steps # step_delay
                        THEN MAX_SIZE_T ELSE product
  IN  IF result_delay <= MAX_SIZE_T - constant_delay
        THEN result_delay + constant_delay
        ELSE MAX_SIZE_T

\* std::llabs
Abs(d) == IF d < 0 THEN -d ELSE d

is_end(t)   == t.pos = t.size
is_begin(t) == t.pos = 0

RECURSIVE ExtendLoop(_, _)
ExtendLoop(s, target) ==
  IF Len(s) < target THEN ExtendLoop(s \o <<0, 0, 0, 0>>, target) ELSE s

\* (mutant) extend that does not look at WRITABLE
extend_any_stream(t) ==
  IF t.failbit
    THEN Fail(t, "io")
    ELSE Ok([t EXCEPT !.stream =
               ExtendLoop(t.stream, t.size * VALUE_SIZE + t.stream_offset)], 0)

\* tape::extend: on a stream whose failbit is set the loop is not entered
\* and !stream raises.
extend(t) ==
  IF t.wr
    THEN IF t.failbit
           THEN Fail(t, "io")
           ELSE Ok([t EXCEPT !.stream =
                      ExtendLoop(t.stream,
                                 t.size * VALUE_SIZE + t.stream_offset)], 0)
    ELSE Ok(t, 0)

\* (mutant) a constructor that accepts every head position
tape_over_unchecked(s, size, pos, stream_offset, delays, rd, wr) ==
  extend([pos |-> pos, size |-> size, stream_offset |-> stream_offset,
          stream |-> s.stream, consistent |-> FALSE, buffer |-> 0,
          delays |-> delays, failbit |-> s.failbit, rd |-> rd, wr |-> wr,
          io |-> <<>>])

\* tape::tape(Stream&&, size, pos, stream_offset, delays) over the stream s,
\* which brings its bytes and its error state
tape_over(s, size, pos, stream_offset, delays, rd, wr) ==
  LET t == [pos |-> pos, size |-> size, stream_offset |-> stream_offset,
            stream |-> s.stream, consistent |-> FALSE, buffer |-> 0,
            delays |-> delays, failbit |-> s.failbit, rd |-> rd, wr |-> wr,
            io |-> <<>>]
  IN  IF pos > size THEN Fail(DefaultTape(rd, wr), "arg") ELSE extend(t)

\* tape::tape(Stream&&, size, pos, stream_offset, delays) over a stream in
\* good state that holds the bytes `stream`
tape(stream, size, pos, stream_offset, delays, rd, wr) ==
  tape_over([stream |-> stream, failbit |-> FALSE], size, pos, stream_offset,
            delays, rd, wr)

\* (mutant) check_diff without the upper bound on the new position
check_diff_no_upper(t, diff) ==
  IF diff > 0 THEN t.pos <= MAX_SIZE_T - diff ELSE t.pos >= -diff

\* tape::check_diff
check_diff(t, diff) ==
  IF diff > 0
    THEN t.pos <= MAX_SIZE_T - diff /\ t.pos + diff <= t.size
    ELSE t.pos >= -diff

\* (mutant) seek_impl that leaves the cached cell marked consistent
seek_impl_keeps_cache(t, diff) ==
  IF ~check_diff(t, diff)
    THEN Fail(t, "assert")
    ELSE Ok([t EXCEPT !.pos = @ + diff], 0)

\* (mutant) seek_impl that drops the cached cell whatever the distance
seek_impl_drops_always(t, diff) ==
  IF ~check_diff(t, diff)
    THEN Fail(t, "assert")
    ELSE Ok([t EXCEPT !.pos = @ + diff, !.consistent = FALSE], 0)

\* tape::seek_impl
seek_impl(t, diff) ==
  IF ~check_diff(t, diff)
    THEN Fail(t, "assert")
    ELSE Ok([t EXCEPT !.pos = @ + diff,
                      !.consistent = @ /\ (diff = 0)], 0)

\* (mutant) seek that ignores a backward movement
seek_forward_only(t, diff) == IF diff < 0 THEN Ok(t, 0) ELSE seek_impl(t, diff)

\* tape::seek
seek(t, diff) ==
  delay(seek_impl(t, diff),
        rewind_ns(t.delays.rewind_delay, t.delays.rewind_step_delay, Abs(diff)))

\* tape::next
next(t) == delay(seek_impl(t, 1), t.delays.next_delay)

\* tape::prev
prev(t) == delay(seek_impl(t, -1), t.delays.next_delay)

\* tape::get_value
get_value(t) ==
  LET r == StreamRead(t.stream, t.pos * VALUE_SIZE + t.stream_offset)
      u == Emit(Emit(t, "seekg", IF r.seek THEN 1 ELSE 0), "read", r.n)
  IN  IF r.ok
        THEN Ok([u EXCEPT !.failbit = FALSE], DecodeValue(r.bytes))
        ELSE Fail([u EXCEPT !.failbit = TRUE], "io")

\* (mutant) get that reads the stream whether or not the cell is cached
get_always_reads(t) ==
  IF is_end(t) THEN Fail(t, "assert")
  ELSE LET r == get_value(t)
       IN  IF r.err # "none" THEN r
           ELSE delay(Ok([r.t EXCEPT !.buffer = r.val, !.consistent = TRUE],
                         r.val),
                      t.delays.read_delay)

\* tape::get
get(t) ==
  IF is_end(t) THEN Fail(t, "assert")
  ELSE IF ~t.consistent
    THEN LET r == get_value(t)
         IN  IF r.err # "none" THEN r
             ELSE delay(Ok([r.t EXCEPT !.buffer = r.val, !.consistent = TRUE],
                           r.val),
                        t.delays.read_delay)
    ELSE delay(Ok(t, t.buffer), t.delays.read_delay)

\* tape::set_value
set_value(t, value) ==
  LET r == StreamWrite(t.stream, t.pos * VALUE_SIZE + t.stream_offset,
                       EncodeValue(value))
      u == Emit(Emit(t, "seekp", IF r.seek THEN 1 ELSE 0), "write",
                IF r.ok THEN VALUE_SIZE ELSE 0)
  IN  IF r.ok
        THEN Ok([u EXCEPT !.stream = r.bytes, !.failbit = FALSE], 0)
        ELSE Fail([u EXCEPT !.failbit = TRUE], "io")

\* tape::set
set(t, new_value) ==
  IF is_end(t) THEN Fail(t, "assert")
  ELSE LET r == set_value([t EXCEPT !.consistent = FALSE], new_value)
       IN  IF r.err # "none" THEN r
           ELSE delay(Ok([r.t EXCEPT !.buffer = new_value, !.consistent = TRUE],
                         0),
                      t.delays.write_delay)

\* stream.write that breaks off after k bytes (a full or failing device)
StreamWriteFails(s, p, b, k) ==
  [ok |-> FALSE, seek |-> TRUE,
   bytes |-> SubSeq(s, 1, p) \o SubSeq(b, 1, k) \o SubSeq(s, p + k + 1, Len(s))]

\* tape::set_value when the write breaks off after k bytes
set_value_fails(t, value, k) ==
  LET r == StreamWriteFails(t.stream, t.pos * VALUE_SIZE + t.stream_offset,
                            EncodeValue(value), k)
      u == Emit(Emit(t, "seekp", 1), "write", k)
  IN  Fail([u EXCEPT !.stream = r.bytes, !.failbit = TRUE], "io")

\* (mutant) a set that marks the cell inconsistent only after the write
set_fails_late_clear(t, new_value, k) ==
  IF is_end(t) THEN Fail(t, "assert")
  ELSE set_value_fails(t, new_value, k)

\* tape::set when the write breaks off after k bytes
set_fails(t, new_value, k) ==
  IF is_end(t) THEN Fail(t, "assert")
  ELSE set_value_fails([t EXCEPT !.consistent = FALSE], new_value, k)

\* tape::flush
flush(t) == IF t.failbit THEN Fail(t, "io") ELSE Ok(t, 0)

\* (mutant) a move that copies the members and leaves the source as it was
move_src_untouched(other) == other

\* tape::operator=(tape&&) and tape::tape(tape&&): the members the destination
\* ends up with ...
move_dst(dst, other) ==
  [dst EXCEPT !.pos = other.pos, !.size = other.size,
              !.stream_offset = other.stream_offset, !.stream = other.stream,
              !.failbit = other.failbit,
              !.consistent = other.consistent, !.buffer = other.buffer,
              !.delays = other.delays]

\* ... and the members left in the moved-from tape (std::exchange(..., 0), a
\* moved-from stream; its buffer is only copied).
move_src(other) ==
  [other EXCEPT !.pos = 0, !.size = 0, !.stream_offset = 0, !.stream = <<>>,
                !.failbit = FALSE, !.consistent = FALSE]

\* tape::tape(tape&&) also resets the delays of the moved-from tape
\* (std::exchange(other.delays, {})).
move_ctor_src(other) == [move_src(other) EXCEPT !.delays = NoDelays]

\* (mutant) release that hands the stream back and keeps head and size
release_keeps_head(t) ==
  [t EXCEPT !.stream_offset = 0, !.stream = <<>>,
            !.consistent = FALSE, !.failbit = FALSE, !.delays = NoDelays]

\* tape::release, as seen from the tape object
release(t) ==
  [t EXCEPT !.pos = 0, !.size = 0, !.stream_offset = 0, !.stream = <<>>,
            !.consistent = FALSE, !.failbit = FALSE, !.delays = NoDelays]

\* Where the cursors of t's stream may be: the tape seeks before every read
\* and write and the model does not keep the cursor, which matters only to a
\* seekg/seekp that fails and so leaves it where it was.
StreamCursors(t) == IF t.failbit THEN 0 .. Len(t.stream) ELSE {0}

\* tape::release, the stream it returns: g and p are the read and the write
\* cursor, cur where they were before.  The seeks use the member
\* stream_offset after it was assigned 0, and do nothing on a stream whose
\* failbit is set.
release_stream(t, cur) ==
  LET zeroed == release(t)
  IN  [stream |-> t.stream, failbit |-> t.failbit,
       g |-> IF t.failbit THEN cur ELSE zeroed.stream_offset,
       p |-> IF t.failbit THEN cur ELSE zeroed.stream_offset]

-----------------------------------------------------------------------------
(* TapeSpec: a caller constructs tape `a` and then invokes the public      *)
(* operations in any order on `a` and on the default-constructed `b`; once *)
(* it releases a tape it constructs `a` anew over the released stream and  *)
(* reads it back.                                                          *)
(* A failed assert() aborts the process; an exception leaves the tape as   *)
(* the throwing method left it and the caller carries on.                  *)

Objects == {"a", "b"}

\* Cell values the caller writes.
TValues == {-1, 65535}

\* The cells an initial stream of n cells holds.
TInitCells(n) == [i \in 1 .. n |-> IF i % 2 = 1 THEN 65535 - i ELSE -i - 1]

\* Byte offsets of cell 0 passed to the constructor.
TOffsets == {0, 5}

\* Head movements passed to seek().
TDiffs == (-MaxSize - 1) .. (MaxSize + 1)

RECURSIVE SeqsUpTo(_, _)
SeqsUpTo(S, n) ==
  IF n = 0 THEN {<<>>}
  ELSE LET shorter == SeqsUpTo(S, n - 1)
       IN  shorter \cup {Append(q, x) : q \in {r \in shorter : Len(r) = n - 1}, x \in S}

\* The capability sets of the stream types: istream, ostream, iostream.
Capabilities == {<<TRUE, FALSE>>, <<FALSE, TRUE>>, <<TRUE, TRUE>>}

\* Cell i of the byte stream s of a tape whose cell 0 is at byte `off`, with
\* bytes past the end of s read as 0.
ByteAt(s, k) == IF k <= Len(s) THEN s[k] ELSE 0
CellOf(s, off, i) ==
  DecodeValue([k \in 1 .. VALUE_SIZE |-> ByteAt(s, off + VALUE_SIZE * i + k)])

\* Cell i of tape t.
CellAt(t, i) == CellOf(t.stream, t.stream_offset, i)

\* The cells i with from <= i < from + count of tape t, left to right.
CellsOf(t, from, count) == [k \in 1 .. count |-> CellAt(t, from + k - 1)]

\* delay_config of the tape the caller constructs.
TestDelays ==
  [read_delay |-> 2, write_delay |-> 3, rewind_step_delay |-> 10,
   rewind_delay |-> 5, next_delay |-> 4]

\* How many bytes of a cell reach the medium when a write fails.
FaultBytes == {2}

\* No device fails.
NoFault == [tape |-> "none", after |-> 0, bytes |-> 0]

\* No file guard exists and tape-sort is not running.
UtilIdle == guards = <<>> /\ files = {} /\ removed = {} /\ proc = <<>>

TInit ==
  /\ UtilIdle
  /\ tst = "new"
  /\ \E len \in 0 .. MaxSize,
        size \in 0 .. MaxSize, pos \in 0 .. MaxSize + 1,
        off \in TOffsets, cap \in Capabilities :
       args = [stream |-> EncodeCells(TInitCells(len)), size |-> size, pos |-> pos,
               stream_offset |-> off, delays |-> TestDelays,
               rd |-> cap[1], wr |-> cap[2]]
  /\ tp = [o \in Objects |-> DefaultTape(args.rd, args.wr)]
  /\ arr = [o \in Objects |-> <<>>]
  /\ ret = [val |-> 0, err |-> "none", by |-> "none"]
  /\ rel = <<>>
  /\ fault = NoFault
  /\ pc = "idle" /\ form = "ext" /\ cmp = "less" /\ chunk_size = 0
  /\ tapes = <<>> /\ info = <<>> /\ vec = <<>> /\ vi = 0 /\ stack = <<>>
  /\ entry = <<>> /\ ops = <<>> /\ stat = <<>>

\* Events `ev` among the events io.
Events(io, ev) == {k \in DOMAIN io : io[k].ev = ev}

\* The outcome r of method `op` on object o.
TOutcome(o, op, r) ==
  /\ tp' = [tp EXCEPT ![o] = Quiet(r.t)]
  /\ ret' = [val |-> r.val, err |-> r.err,
             by |-> IF r.err = "none" THEN "none" ELSE op]
  /\ tst' = IF r.err = "assert" THEN "aborted" ELSE tst

\* The reference array of a tape constructed over stream s.
ArrayOf(s, size, stream_offset) ==
  [i \in 1 .. size |-> CellOf(s, stream_offset, i - 1)]

TConstruct ==
  /\ tst = "new"
  /\ LET r == tape(args.stream, args.size, args.pos, args.stream_offset,
                   args.delays, args.rd, args.wr)
     IN  /\ tp' = [tp EXCEPT !["a"] = Quiet(r.t)]
         /\ ret' = [val |-> 0, err |-> r.err,
                    by |-> IF r.err = "none" THEN "none" ELSE "tape"]
         /\ tst' = IF r.err = "none" THEN "live" ELSE "rejected"
         /\ arr' = [arr EXCEPT !["a"] =
                      IF r.err = "none"
                        THEN ArrayOf(args.stream, args.size, args.stream_offset)
                        ELSE <<>>]
  /\ UNCHANGED <<args, rel, fault>>
  /\ UNCHANGED <<sortVars, utilVars>>

TNext(o) ==
  /\ tst \in {"live", "reread"}
  /\ TOutcome(o, "next", next(tp[o]))
  /\ UNCHANGED <<args, arr, rel, fault>>
  /\ UNCHANGED <<sortVars, utilVars>>

TPrev(o) ==
  /\ tst = "live"
  /\ TOutcome(o, "prev", prev(tp[o]))
  /\ UNCHANGED <<args, arr, rel, fault>>
  /\ UNCHANGED <<sortVars, utilVars>>

TSeek(o, diff) ==
  /\ tst = "live"
  /\ TOutcome(o, "seek", seek(tp[o], diff))
  /\ UNCHANGED <<args, arr, rel, fault>>
  /\ UNCHANGED <<sortVars, utilVars>>

TGet(o) ==
  /\ tst \in {"live", "reread"}
  /\ tp[o].rd
  /\ TOutcome(o, "get", get(tp[o]))
  /\ UNCHANGED <<args, arr, rel, fault>>
  /\ UNCHANGED <<sortVars, utilVars>>

TSet(o, v) ==
  /\ tst = "live"
  /\ tp[o].wr
  /\ LET r == set(tp[o], v)
     IN  /\ TOutcome(o, "set", r)
         /\ arr' = IF r.err = "none"
                     THEN [arr EXCEPT ![o][tp[o].pos + 1] = v]
                     ELSE arr
  /\ UNCHANGED <<args, rel, fault>>
  /\ UNCHANGED <<sortVars, utilVars>>

\* set(v) on a device whose write breaks off after k bytes: the array holds
\* whatever the medium holds at the cell.
TSetFails(o, v, k) ==
  /\ tst = "live"
  /\ tp[o].wr
  /\ ~is_end(tp[o])
  /\ LET r == set_fails(tp[o], v, k)
     IN  /\ TOutcome(o, "set", r)
         /\ arr' = [arr EXCEPT ![o][tp[o].pos + 1] = CellAt(r.t, tp[o].pos)]
  /\ UNCHANGED <<args, rel, fault>>
  /\ UNCHANGED <<sortVars, utilVars>>

TFlush(o) ==
  /\ tst = "live"
  /\ tp[o].wr
  /\ TOutcome(o, "flush", flush(tp[o]))
  /\ UNCHANGED <<args, arr, rel, fault>>
  /\ UNCHANGED <<sortVars, utilVars>>

\* dst = std::move(src)
TMove(src, dst) ==
  /\ tst = "live"
  /\ src # dst
  /\ tp' = [tp EXCEPT ![dst] = move_dst(tp[dst], tp[src]),
                      ![src] = move_src(tp[src])]
  /\ arr' = [arr EXCEPT ![dst] = arr[src], ![src] = <<>>]
  /\ ret' = [val |-> 0, err |-> "none", by |-> "none"]
  /\ UNCHANGED <<tst, args, rel, fault>>
  /\ UNCHANGED <<sortVars, utilVars>>

\* tape dst(std::move(src)), dst taking the place of a tape that was never
\* given a stream
TMoveConstruct(src, dst) ==
  /\ tst = "live"
  /\ src # dst
  /\ tp[dst] = DefaultTape(tp[dst].rd, tp[dst].wr)
  /\ tp' = [tp EXCEPT ![dst] = move_dst(DefaultTape(tp[dst].rd, tp[dst].wr),
                                        tp[src]),
                      ![src] = move_ctor_src(tp[src])]
  /\ arr' = [arr EXCEPT ![dst] = arr[src], ![src] = <<>>]
  /\ ret' = [val |-> 0, err |-> "none", by |-> "none"]
  /\ UNCHANGED <<tst, args, rel, fault>>
  /\ UNCHANGED <<sortVars, utilVars>>

\* Stream s = o.release(): the caller holds the stream (with the cells it
\* held as the tape's medium, its size and its offset, for reference).
TRelease(o) ==
  /\ tst = "live"
  /\ \E cur \in StreamCursors(tp[o]) :
       rel' = [s |-> release_stream(tp[o], cur),
               cells |-> arr[o], size |-> tp[o].size,
               stream_offset |-> tp[o].stream_offset]
  /\ tp' = [tp EXCEPT ![o] = release(tp[o])]
  /\ arr' = [arr EXCEPT ![o] = <<>>]
  /\ ret' = [val |-> 0, err |-> "none", by |-> "none"]
  /\ tst' = "released"
  /\ UNCHANGED <<args, fault>>
  /\ UNCHANGED <<sortVars, utilVars>>

\* a = tape(std::move(s), size, 0, stream_offset) over the released stream;
\* the caller then reads the tape back with get() and next().  A constructor
\* that throws leaves `a` as it was.
TReconstruct ==
  /\ tst = "released"
  /\ LET r == tape_over(rel.s, rel.size, 0, rel.stream_offset, NoDelays,
                        args.rd, args.wr)
     IN  /\ tp' = IF r.err = "none" THEN [tp EXCEPT !["a"] = Quiet(r.t)] ELSE tp
         /\ ret' = [val |-> 0, err |-> r.err,
                    by |-> IF r.err = "none" THEN "none" ELSE "tape"]
         /\ arr' = IF r.err = "none"
                     THEN [arr EXCEPT !["a"] =
                             ArrayOf(rel.s.stream, rel.size, rel.stream_offset)]
                     ELSE arr
  /\ rel' = <<>>
  /\ tst' = "reread"
  /\ UNCHANGED <<args, fault>>
  /\ UNCHANGED <<sortVars, utilVars>>

TNextStep ==
  \/ TConstruct
  \/ \E o \in Objects : TNext(o)
  \/ \E o \in Objects : TPrev(o)
  \/ \E o \in Objects, diff \in TDiffs : TSeek(o, diff)
  \/ \E o \in Objects : TGet(o)
  \/ \E o \in Objects, v \in TValues : TSet(o, v)
  \/ \E o \in Objects, v \in TValues, k \in FaultBytes : TSetFails(o, v, k)
  \/ \E o \in Objects : TFlush(o)
  \/ \E src \in Objects, dst \in Objects : TMove(src, dst)
  \/ \E o \in Objects : TRelease(o)
  \/ TReconstruct

TapeSpec == TInit /\ [][TNextStep]_vars

\* MoveSpec: a caller that constructs a tape, walks and writes it, and moves
\* it, by assignment or into a new tape.
MoveNext ==
  \/ TConstruct
  \/ \E o \in Objects : TNext(o)
  \/ \E o \in Objects : TPrev(o)
  \/ \E o \in Objects : TGet(o)
  \/ \E o \in Objects, v \in TValues : TSet(o, v)
  \/ \E src \in Objects, dst \in Objects : TMove(src, dst)
  \/ \E src \in Objects, dst \in Objects : TMoveConstruct(src, dst)

MoveSpec == TInit /\ [][MoveNext]_vars

-----------------------------------------------------------------------------
(* DelaySpec: a caller constructs a long read-only tape with a delay       *)
(* configuration and calls seek() once; ret.val is the time the call       *)
(* slept.                                                                  *)

\* Size and head position of the long tape.
FarSize == 131072
FarPos  == 65536

\* Head movements of the long tape.
FarDiffs == {-65536, -32768, -3, -1, 0, 1, 2, 32768, 65536}

\* rewind_delay and rewind_step_delay of the configurations.
RewindDelays == {0, 5, MAX_SIZE_T - 10, MAX_SIZE_T}
StepDelays   == {0, 1, 10, 32768, 65536, 1073741824, MAX_SIZE_T}

\* The nanoseconds the call that yielded r slept.
Slept(r) ==
  LET k == Events(r.t.io, "sleep")
  IN  IF k = {} THEN 0 ELSE r.t.io[CHOOSE i \in k : TRUE].arg

DInit ==
  /\ UtilIdle
  /\ tst = "new"
  /\ \E c \in RewindDelays, st \in StepDelays :
       args = [stream |-> <<>>, size |-> FarSize, pos |-> FarPos,
               stream_offset |-> 0,
               delays |-> [NoDelays EXCEPT !.rewind_delay = c,
                                           !.rewind_step_delay = st],
               rd |-> TRUE, wr |-> FALSE]
  /\ tp = [o \in Objects |-> DefaultTape(args.rd, args.wr)]
  /\ arr = [o \in Objects |-> <<>>]
  /\ ret = [val |-> 0, err |-> "none", by |-> "none"]
  /\ rel = <<>>
  /\ fault = NoFault
  /\ pc = "idle" /\ form = "ext" /\ cmp = "less" /\ chunk_size = 0
  /\ tapes = <<>> /\ info = <<>> /\ vec = <<>> /\ vi = 0 /\ stack = <<>>
  /\ entry = <<>> /\ ops = <<>> /\ stat = <<>>

DConstruct ==
  /\ tst = "new"
  /\ LET r == tape(args.stream, args.size, args.pos, args.stream_offset,
                   args.delays, args.rd, args.wr)
     IN  tp' = [tp EXCEPT !["a"] = Quiet(r.t)]
  /\ tst' = "ready"
  /\ UNCHANGED <<args, arr, ret, rel, fault>>
  /\ UNCHANGED <<sortVars, utilVars>>

DSeek(diff) ==
  /\ tst = "ready"
  /\ LET r == seek(tp["a"], diff)
     IN  /\ tp' = [tp EXCEPT !["a"] = Quiet(r.t)]
         /\ ret' = [val |-> Slept(r), err |-> r.err,
                    by |-> IF r.err = "none" THEN "none" ELSE "seek"]
  /\ tst' = "sought"
  /\ UNCHANGED <<args, arr, rel, fault>>
  /\ UNCHANGED <<sortVars, utilVars>>

DNextStep ==
  \/ DConstruct
  \/ \E diff \in FarDiffs : DSeek(diff)

DelaySpec == DInit /\ [][DNextStep]_vars

-----------------------------------------------------------------------------
(* Spec: one call of sort().                                               *)

TapeNames == {"in", "out", "t1", "t2", "t3"}
OpKinds   == {"get", "set", "next", "prev", "seek"}

\* Cell values of the input.
Values == {0, 1, 2}

\* Head positions of the tapes when sort() is called.
Heads == {0, 1}

\* What lies on a tape below its head when sort() is called.
Filler(n) == [i \in 1 .. n |-> 40 + i]

\* The comparators: std::less, std::greater and mod_cmp<2> of the tests.
Comparators == {"less", "greater", "mod2"}
Compare(c, l, r) ==
  CASE c = "less"    -> l < r
    [] c = "greater" -> l > r
    [] c = "mod2"    -> (l % 2) < (r % 2)

\* ---- calls of tape methods by the sort: m is [tapes, ops, err, val], the
\* tapes and the call counts so far, the exception in flight (a call made
\* while one is in flight does not happen) and the last returned value.
Machine(T, O) == [tapes |-> T, ops |-> O, err |-> "none", val |-> 0]

\* The next write on tape n is the one that fails.
WriteFault(m, n) == fault.tape = n /\ m.ops[n]["set"] = fault.after

Called(m, n, kind, r) ==
  IF m.err # "none" THEN m
  ELSE [tapes |-> [m.tapes EXCEPT ![n] = Quiet(r.t)],
        ops   |-> [m.ops EXCEPT ![n][kind] = @ + 1],
        err   |-> r.err,
        val   |-> r.val]

\* Op applied to the value of m, so that a chain of calls evaluates each of its
\* calls once.
Once(m, Op(_)) == CHOOSE x \in {Op(mm) : mm \in {m}} : TRUE

call_get(m, n) ==
  Once(m, LAMBDA mm : Called(mm, n, "get", get(mm.tapes[n])))
call_set(m, n, v) ==
  Once(m, LAMBDA mm :
            Called(mm, n, "set",
                   IF WriteFault(mm, n)
                     THEN set_fails(mm.tapes[n], v, fault.bytes)
                     ELSE set(mm.tapes[n], v)))
call_next(m, n) ==
  Once(m, LAMBDA mm : Called(mm, n, "next", next(mm.tapes[n])))
call_prev(m, n) ==
  Once(m, LAMBDA mm : Called(mm, n, "prev", prev(mm.tapes[n])))
call_seek(m, n, diff) ==
  Once(m, LAMBDA mm : Called(mm, n, "seek", seek(mm.tapes[n], diff)))

\* (mutant) peek that puts the head back where it found it
peek_in_place(m, n) == call_next(call_get(call_prev(m, n), n), n)

\* helpers::peek
peek(m, n) == call_get(call_prev(m, n), n)

\* (mutant) put that does not advance the head
put_no_advance(m, n, value) == call_set(m, n, value)

\* (mutant) put that writes the cell twice before it advances
put_writes_twice(m, n, value) ==
  call_next(call_set(call_set(m, n, value), n, value), n)

\* (mutant) put that advances the head by two cells
put_advances_twice(m, n, value) ==
  call_next(call_next(call_set(m, n, value), n), n)

\* helpers::put
put(m, n, value) == call_next(call_set(m, n, value), n)

\* ---- helpers::subarray_info
NewInfo == [equal |-> TRUE, element |-> 0, size |-> 0]

\* The outcomes of std::uniform_int_distribution<>(0, size_)(gen) == 0.
TakeChoices(i) == IF i.size = 0 THEN {TRUE} ELSE {TRUE, FALSE}

\* (mutant) an update() that does not count a value it takes over an older one
update_skips_count(i, value, take) ==
  [equal   |-> i.equal /\ (i.size = 0 \/ (~Compare(cmp, i.element, value)
                                           /\ ~Compare(cmp, value, i.element))),
   element |-> IF take THEN value ELSE i.element,
   size    |-> IF take /\ i.size > 0 THEN i.size ELSE i.size + 1]

\* (mutant) an update() that never takes the new value as the element
update_never_takes(i, value, take) ==
  [equal   |-> i.equal /\ (i.size = 0 \/ (~Compare(cmp, i.element, value)
                                           /\ ~Compare(cmp, value, i.element))),
   element |-> i.element,
   size    |-> i.size + 1]

\* (mutant) an update() that forgets an earlier difference
update_forgets(i, value, take) ==
  [equal   |-> i.size = 0 \/ (~Compare(cmp, i.element, value)
                              /\ ~Compare(cmp, value, i.element)),
   element |-> IF take THEN value ELSE i.element,
   size    |-> i.size + 1]

\* subarray_info::update, `take` being the outcome of the draw
update(i, value, take) ==
  [equal   |-> i.equal /\ (i.size = 0 \/ (~Compare(cmp, i.element, value)
                                           /\ ~Compare(cmp, value, i.element))),
   element |-> IF take THEN value ELSE i.element,
   size    |-> i.size + 1]

\* (mutant) an update() that tests one direction only
update_calls_one_way(i, value) == IF ~i.equal \/ i.size = 0 THEN 0 ELSE 1

\* Comparator invocations of one update(): && and || short-circuit.
update_calls(i, value) ==
  IF ~i.equal \/ i.size = 0 THEN 0
  ELSE IF Compare(cmp, i.element, value) THEN 1 ELSE 2

\* (mutant) split with the comparator's arguments exchanged
goes_left_swapped(value, key) == Compare(cmp, key, value)

\* (mutant) split that also sends the values equivalent to the key to `left`
goes_left_or_equal(value, key) == ~Compare(cmp, key, value)

\* (mutant) split that sends every value to `left`
goes_left_always(value, key) == TRUE

\* helpers::split: compare(value, key) sends the value to `left`
goes_left(value, key) == Compare(cmp, value, key)

\* (mutant) tape_to_vec that stops one element early
load_more_one_short(f) == ~is_begin(tapes[f.current]) /\ f.i < f.info.size - 1

\* helpers::tape_to_vec: the loop condition, f.i elements taken so far
load_more(f) == ~is_begin(tapes[f.current]) /\ f.i < f.info.size

\* ---- std::sort(vec.begin(), vec.end(), compare): some permutation of vec
\* ordered by the comparator (the sort is not stable).
IsSorted(v) == \A k \in 1 .. Len(v) - 1 : ~Compare(cmp, v[k + 1], v[k])
StdSort(v) ==
  {w \in {[k \in 1 .. Len(v) |-> v[p[k]]] : p \in Permutations(1 .. Len(v))} :
     IsSorted(w)}

\* ---- activation records of helpers::sort_impl
\* (mutant) sort_impl that tests the chunk size before info.equal()
Branch_chunk_first(i) ==
  IF i.size = 0 THEN "ret"
  ELSE IF i.size <= chunk_size THEN "load"
  ELSE IF i.equal THEN "fast"
  ELSE "split"

\* (mutant) sort_impl that sorts every range of unequal cells in memory
Branch_always_loads(i) ==
  IF i.size = 0 THEN "ret"
  ELSE IF i.equal THEN "fast"
  ELSE "load"

\* (mutant) sort_impl that loads only a range shorter than chunk_size
Branch_chunk_strict(i) ==
  IF i.size = 0 THEN "ret"
  ELSE IF i.equal THEN "fast"
  ELSE IF i.size < chunk_size THEN "load"
  ELSE "split"

\* The branch a call takes on entry (the three tests on info).
Branch(i) ==
  IF i.size = 0 THEN "ret"
  ELSE IF i.equal THEN "fast"
  ELSE IF i.size <= chunk_size THEN "load"
  ELSE "split"

\* The record also keeps `at`, the tapes as the call found them.
Frame(current, tmp1, tmp2, i) ==
  [current |-> current, tmp1 |-> tmp1, tmp2 |-> tmp2, info |-> i,
   pc |-> Branch(i), i |-> 0,
   left_info |-> NewInfo, right_info |-> NewInfo,
   at |-> tapes]

Top == stack[Len(stack)]

\* What entering the call with summary i adds to the counters.
Entered(st, i) ==
  [st EXCEPT !.splits = @ + (IF Branch(i) = "split" THEN 1 ELSE 0),
             !.loads  = @ + (IF Branch(i) = "load" THEN 1 ELSE 0)]

\* ---- the state when sort() is called
EntryHead(n, h) == IF n \in {"in", "t1", "t3"} THEN h ELSE 1 - h

EntryTape(n, input, h, missing) ==
  LET hd == EntryHead(n, h)
      sz == hd + Len(input)
  IN  CASE n = "in" ->
             LET bytes == EncodeCells(Filler(hd) \o input)
             IN  tape(SubSeq(bytes, 1, Len(bytes) - missing), sz, hd, 0, NoDelays,
                      TRUE, FALSE).t
        [] n = "out" ->
             tape(EncodeCells(Filler(hd)), sz, hd, 0, NoDelays, FALSE, TRUE).t
        [] OTHER ->
             tape(EncodeCells(Filler(hd)), sz, hd, 0, NoDelays, TRUE, TRUE).t

\* The devices that may fail: a write on the output or on a scratch tape.
Faults ==
  [tape : {"out", "t1", "t2", "t3"}, after : 0 .. MaxFault, bytes : FaultBytes]

SortInit ==
  /\ UtilIdle
  /\ tst = "idle"
  /\ args = <<>> /\ tp = <<>> /\ arr = <<>>
  /\ ret = [val |-> 0, err |-> "none", by |-> "none"]
  /\ rel = <<>>
  /\ form \in {"ram", "ext"}
  /\ cmp \in Comparators
  /\ chunk_size \in 0 .. MaxChunk
  /\ form = "ram" => chunk_size = 0
  /\ \E input \in SeqsUpTo(Values, MaxN), h \in Heads,
        missing \in {0, VALUE_SIZE} :
       /\ missing <= VALUE_SIZE * Len(input)
       /\ tapes = [n \in TapeNames |-> EntryTape(n, input, h, missing)]
  /\ entry = tapes
  /\ pc = IF form = "ram" THEN "ram_read" ELSE "ingest"
  /\ info = NewInfo
  /\ vec = <<>>
  /\ vi = 0
  /\ stack = <<>>
  /\ ops = [n \in TapeNames |-> [k \in OpKinds |-> 0]]
  /\ stat = [ingest_cmp |-> 0, impl_cmp |-> 0, splits |-> 0, loads |-> 0,
             moved |-> 0]

\* sort() on devices that work (a short input stream apart)
Init == SortInit /\ fault = NoFault

\* sort() with one device that fails
FaultInit == SortInit /\ fault \in Faults

\* (mutant) a step whose call raised puts the tapes back as sort() found them
Commit_rolls_back(m) ==
  /\ tapes' = IF m.err = "io" THEN entry ELSE m.tapes
  /\ ops' = m.ops

\* The tape calls of a step take effect, whether or not one of them raised.
\* (The actions bind each call's result with \E over a singleton set, so
\* that the call is evaluated once.)
Commit(m) == tapes' = m.tapes /\ ops' = m.ops

\* An exception (or a failed assert) leaves sort(): the activations unwind.
Raise(m) ==
  /\ pc' = IF m.err = "assert" THEN "aborted" ELSE "io_error"
  /\ stack' = <<>>
  /\ UNCHANGED <<form, cmp, chunk_size, info, vec, vi, entry, stat>>

\* ---- sort(in, out, compare)
RamRead ==
  /\ pc = "ram_read"
  /\ ~is_end(tapes["in"])
  /\ \E m1 \in {call_get(Machine(tapes, ops), "in")} :
     \E m2 \in {call_next(m1, "in")} :
         /\ Commit(m2)
         /\ IF m2.err = "none"
              THEN /\ vec' = Append(vec, m1.val)
                   /\ UNCHANGED <<pc, form, cmp, chunk_size, info, vi, stack,
                                  entry, stat>>
              ELSE Raise(m2)
  /\ UNCHANGED <<tapeVars, utilVars>>

RamSort ==
  /\ pc = "ram_read"
  /\ is_end(tapes["in"])
  /\ \E m \in {call_seek(Machine(tapes, ops), "in", -Len(vec))} :
         /\ Commit(m)
         /\ IF m.err = "none"
              THEN /\ vec' \in StdSort(vec)
                   /\ vi' = 0
                   /\ pc' = "ram_write"
                   /\ UNCHANGED <<form, cmp, chunk_size, info, stack, entry, stat>>
              ELSE Raise(m)
  /\ UNCHANGED <<tapeVars, utilVars>>

RamWrite ==
  /\ pc = "ram_write"
  /\ vi < Len(vec)
  /\ \E m \in {put(Machine(tapes, ops), "out", vec[vi + 1])} :
         /\ Commit(m)
         /\ IF m.err = "none"
              THEN /\ vi' = vi + 1
                   /\ UNCHANGED <<pc, form, cmp, chunk_size, info, vec, stack,
                                  entry, stat>>
              ELSE Raise(m)
  /\ UNCHANGED <<tapeVars, utilVars>>

RamReturn ==
  /\ pc = "ram_write"
  /\ vi = Len(vec)
  /\ pc' = "done"
  /\ UNCHANGED <<form, cmp, chunk_size, tapes, info, vec, vi, stack, entry, ops, stat>>
  /\ UNCHANGED <<tapeVars, utilVars>>

\* ---- sort(in, out, tmp1, tmp2, tmp3, chunk_size, compare)
Ingest ==
  /\ pc = "ingest"
  /\ ~is_end(tapes["in"])
  /\ \E m1 \in {call_get(Machine(tapes, ops), "in")} :
     \E m2 \in {call_next(m1, "in")} :
     \E m3 \in {put(m2, "t1", m1.val)} :
         /\ Commit(m3)
         /\ IF m3.err = "none"
              THEN /\ \E take \in TakeChoices(info) :
                        info' = update(info, m1.val, take)
                   /\ stat' = [stat EXCEPT !.ingest_cmp =
                                              @ + update_calls(info, m1.val)]
                   /\ UNCHANGED <<pc, form, cmp, chunk_size, vec, vi, stack, entry>>
              ELSE Raise(m3)
  /\ UNCHANGED <<tapeVars, utilVars>>

IngestDone ==
  /\ pc = "ingest"
  /\ is_end(tapes["in"])
  /\ \E m \in {call_seek(Machine(tapes, ops), "in", -info.size)} :
         /\ Commit(m)
         /\ IF m.err = "none"
              THEN /\ stack' = <<Frame("t1", "t2", "t3", info)>>
                   /\ stat' = Entered(stat, info)
                   /\ pc' = "impl"
                   /\ UNCHANGED <<form, cmp, chunk_size, info, vec, vi, entry>>
              ELSE Raise(m)
  /\ UNCHANGED <<tapeVars, utilVars>>

\* ---- helpers::sort_impl
SetTop(f) == stack' = [stack EXCEPT ![Len(stack)] = f]

\* the loop of the info.equal() branch
FastStep ==
  /\ pc = "impl"
  /\ Top.pc = "fast"
  /\ Top.i < Top.info.size
  /\ \E m1 \in {peek(Machine(tapes, ops), Top.current)} :
     \E m2 \in {put(m1, "out", m1.val)} :
         /\ Commit(m2)
         /\ IF m2.err = "none"
              THEN /\ SetTop([Top EXCEPT !.i = @ + 1])
                   /\ stat' = [stat EXCEPT !.moved = @ + 1]
                   /\ UNCHANGED <<pc, form, cmp, chunk_size, info, vec, vi, entry>>
              ELSE Raise(m2)
  /\ UNCHANGED <<tapeVars, utilVars>>

\* (mutant) the value read goes to the front of the vector
push_front(v, value) == <<value>> \o v

\* helpers::tape_to_vec: vec.push_back(peek(current))
push_back(v, value) == Append(v, value)

\* helpers::tape_to_vec: one iteration of its loop
LoadStep ==
  /\ pc = "impl"
  /\ Top.pc = "load"
  /\ load_more(Top)
  /\ \E m \in {peek(Machine(tapes, ops), Top.current)} :
         /\ Commit(m)
         /\ IF m.err = "none"
              THEN /\ vec' = push_back(vec, m.val)
                   /\ SetTop([Top EXCEPT !.i = @ + 1])
                   /\ UNCHANGED <<pc, form, cmp, chunk_size, info, vi, entry, stat>>
              ELSE Raise(m)
  /\ UNCHANGED <<tapeVars, utilVars>>

\* tape_to_vec returns; std::sort
LoadSort ==
  /\ pc = "impl"
  /\ Top.pc = "load"
  /\ ~load_more(Top)
  /\ vec' \in StdSort(vec)
  /\ vi' = 0
  /\ SetTop([Top EXCEPT !.pc = "store"])
  /\ UNCHANGED <<pc, form, cmp, chunk_size, tapes, info, entry, ops, stat>>
  /\ UNCHANGED <<tapeVars, utilVars>>

\* helpers::vec_to_tape: one iteration of its loop
StoreStep ==
  /\ pc = "impl"
  /\ Top.pc = "store"
  /\ vi < Len(vec)
  /\ \E m \in {put(Machine(tapes, ops), "out", vec[vi + 1])} :
         /\ Commit(m)
         /\ IF m.err = "none"
              THEN /\ vi' = vi + 1
                   /\ UNCHANGED <<pc, form, cmp, chunk_size, info, vec, stack,
                                  entry, stat>>
              ELSE Raise(m)
  /\ UNCHANGED <<tapeVars, utilVars>>

\* helpers::split: one iteration of its loop; tmp1 is `left`, tmp2 is `right`
\* and the key is info.element()
SplitStep ==
  /\ pc = "impl"
  /\ Top.pc = "split"
  /\ Top.i < Top.info.size
  /\ \E m1 \in {peek(Machine(tapes, ops), Top.current)} :
     \E less \in {goes_left(m1.val, Top.info.element)} :
     \E m2 \in {put(m1, IF less THEN Top.tmp1 ELSE Top.tmp2, m1.val)} :
     LET value == m1.val
         side  == IF less THEN Top.left_info ELSE Top.right_info
     IN  /\ Commit(m2)
         /\ IF m2.err = "none"
              THEN /\ \E take \in TakeChoices(side) :
                        SetTop(IF less
                                 THEN [Top EXCEPT !.i = @ + 1,
                                         !.left_info = update(side, value, take)]
                                 ELSE [Top EXCEPT !.i = @ + 1,
                                         !.right_info = update(side, value, take)])
                   /\ stat' = [stat EXCEPT !.impl_cmp =
                                              @ + 1 + update_calls(side, value)]
                   /\ UNCHANGED <<pc, form, cmp, chunk_size, info, vec, vi, entry>>
              ELSE Raise(m2)
  /\ UNCHANGED <<tapeVars, utilVars>>

\* split returns; sort_impl(out, tmp1, current, tmp2, left_info, ...)
CallLeft ==
  /\ pc = "impl"
  /\ Top.pc = "split"
  /\ Top.i = Top.info.size
  /\ Len(stack) < MaxDepth
  /\ stack' = Append([stack EXCEPT ![Len(stack)].pc = "after_left"],
                     Frame(Top.tmp1, Top.current, Top.tmp2, Top.left_info))
  /\ stat' = Entered(stat, Top.left_info)
  /\ UNCHANGED <<pc, form, cmp, chunk_size, tapes, info, vec, vi, entry, ops>>
  /\ UNCHANGED <<tapeVars, utilVars>>

\* sort_impl(out, tmp2, current, tmp1, right_info, ...)
CallRight ==
  /\ pc = "impl"
  /\ Top.pc = "after_left"
  /\ Len(stack) < MaxDepth
  /\ stack' = Append([stack EXCEPT ![Len(stack)].pc = "after_right"],
                     Frame(Top.tmp2, Top.current, Top.tmp1, Top.right_info))
  /\ stat' = Entered(stat, Top.right_info)
  /\ UNCHANGED <<pc, form, cmp, chunk_size, tapes, info, vec, vi, entry, ops>>
  /\ UNCHANGED <<tapeVars, utilVars>>

\* The activation has nothing left to do.
Finished(f) ==
  \/ f.pc = "ret"
  \/ f.pc = "fast" /\ f.i = f.info.size
  \/ f.pc = "store" /\ vi = Len(vec)
  \/ f.pc = "after_right"

\* return from sort_impl; the outermost return ends sort()
Return ==
  /\ pc = "impl"
  /\ Finished(Top)
  /\ stack' = SubSeq(stack, 1, Len(stack) - 1)
  /\ pc' = IF Len(stack) = 1 THEN "done" ELSE "impl"
  /\ vec' = <<>>
  /\ vi' = 0
  /\ UNCHANGED <<form, cmp, chunk_size, tapes, info, entry, ops, stat>>
  /\ UNCHANGED <<tapeVars, utilVars>>

Next ==
  \/ RamRead
  \/ RamSort
  \/ RamWrite
  \/ RamReturn
  \/ Ingest
  \/ IngestDone
  \/ FastStep
  \/ LoadStep
  \/ LoadSort
  \/ StoreStep
  \/ SplitStep
  \/ CallLeft
  \/ CallRight
  \/ Return

Spec == Init /\ [][Next]_vars

\* The sort is one thread that runs until it returns or raises.
LiveSpec == Init /\ [][Next]_vars /\ WF_vars(Next)

FaultSpec == FaultInit /\ [][Next]_vars

-----------------------------------------------------------------------------
(* TransferSpec: a caller holds a vector vec and a read-write tape t1 with *)
(* room for it above the head; it calls vec_to_tape(vec, t1) and then      *)
(* tape_to_vec(t1, size) with a size of its choice.  The one record of     *)
(* stack is the activation of tape_to_vec: info.size the size it was       *)
(* called with, i the cells taken so far, vec the vector it builds, at the *)
(* tapes as the call found them.                                           *)

XInit ==
  /\ UtilIdle
  /\ tst = "idle"
  /\ args = <<>> /\ tp = <<>> /\ arr = <<>>
  /\ ret = [val |-> 0, err |-> "none", by |-> "none"]
  /\ rel = <<>>
  /\ fault = NoFault
  /\ form = "ext" /\ cmp = "less" /\ chunk_size = 0
  /\ \E v \in SeqsUpTo(Values, MaxN), h \in Heads :
       /\ vec = v
       /\ tapes = [n \in TapeNames |-> EntryTape(n, v, h, 0)]
  /\ entry = tapes
  /\ pc = "vec_to_tape"
  /\ info = NewInfo
  /\ vi = 0
  /\ stack = <<>>
  /\ ops = [n \in TapeNames |-> [k \in OpKinds |-> 0]]
  /\ stat = [ingest_cmp |-> 0, impl_cmp |-> 0, splits |-> 0, loads |-> 0,
             moved |-> 0]

\* helpers::vec_to_tape: one iteration of its loop
XPut ==
  /\ pc = "vec_to_tape"
  /\ vi < Len(vec)
  /\ \E m \in {put(Machine(tapes, ops), "t1", vec[vi + 1])} :
         /\ Commit(m)
         /\ IF m.err = "none"
              THEN /\ vi' = vi + 1
                   /\ UNCHANGED <<pc, form, cmp, chunk_size, info, vec, stack,
                                  entry, stat>>
              ELSE Raise(m)
  /\ UNCHANGED <<tapeVars, utilVars>>

\* vec_to_tape returns; the caller calls tape_to_vec(t1, size)
XCall ==
  /\ pc = "vec_to_tape"
  /\ vi = Len(vec)
  /\ \E size \in 0 .. MaxTake :
       stack' = <<[current |-> "t1", info |-> [NewInfo EXCEPT !.size = size],
                   i |-> 0, vec |-> <<>>, at |-> tapes]>>
  /\ pc' = "tape_to_vec"
  /\ UNCHANGED <<form, cmp, chunk_size, tapes, info, vec, vi, entry, ops, stat>>
  /\ UNCHANGED <<tapeVars, utilVars>>

\* helpers::tape_to_vec: one iteration of its loop
XPeek ==
  /\ pc = "tape_to_vec"
  /\ load_more(Top)
  /\ \E m \in {peek(Machine(tapes, ops), Top.current)} :
         /\ Commit(m)
         /\ IF m.err = "none"
              THEN /\ SetTop([Top EXCEPT !.i = @ + 1,
                                         !.vec = push_back(@, m.val)])
                   /\ UNCHANGED <<pc, form, cmp, chunk_size, info, vec, vi,
                                  entry, stat>>
              ELSE Raise(m)
  /\ UNCHANGED <<tapeVars, utilVars>>

\* helpers::tape_to_vec returns its vector
XReturn ==
  /\ pc = "tape_to_vec"
  /\ ~load_more(Top)
  /\ pc' = "returned"
  /\ UNCHANGED <<form, cmp, chunk_size, tapes, info, vec, vi, stack, entry,
                 ops, stat>>
  /\ UNCHANGED <<tapeVars, utilVars>>

XNextStep ==
  \/ XPut
  \/ XCall
  \/ XPeek
  \/ XReturn

TransferSpec == XInit /\ [][XNextStep]_vars

-----------------------------------------------------------------------------
(* SampleSpec: one subarray_info, updated with distinct values as in the   *)
(* uniform_distribution test.  vec holds the values passed to update() so  *)
(* far and stat the numbers its generator returned, one per call.          *)

\* The values the summary is updated with.
SampleValues == 0 .. MaxUpdates - 1

\* (mutant) a generator that draws from one number too many
Draws_one_more(i) == 0 .. i.size + 1

\* The numbers std::uniform_int_distribution<>(0, size_)(gen) can return, each
\* of them equally likely.
Draws(i) == 0 .. i.size

SInit ==
  /\ UtilIdle
  /\ pc = "sample"
  /\ cmp = "less"
  /\ info = NewInfo
  /\ vec = <<>>
  /\ stat = <<>>
  /\ form = "ext" /\ chunk_size = 0
  /\ tapes = <<>> /\ vi = 0 /\ stack = <<>> /\ entry = <<>> /\ ops = <<>>
  /\ tst = "idle"
  /\ args = <<>> /\ tp = <<>> /\ arr = <<>>
  /\ ret = [val |-> 0, err |-> "none", by |-> "none"]
  /\ rel = <<>>
  /\ fault = NoFault

\* info.update(value), the generator returning d
SUpdate(value, d) ==
  /\ pc = "sample"
  /\ Len(vec) < MaxUpdates
  /\ value \notin {vec[k] : k \in DOMAIN vec}
  /\ d \in Draws(info)
  /\ info' = update(info, value, d = 0)
  /\ vec' = Append(vec, value)
  /\ stat' = Append(stat, d)
  /\ UNCHANGED <<pc, form, cmp, chunk_size, tapes, vi, stack, entry, ops>>
  /\ UNCHANGED <<tapeVars, utilVars>>

SNextStep ==
  \E value \in SampleValues, d \in 0 .. MaxUpdates : SUpdate(value, d)

SampleSpec == SInit /\ [][SNextStep]_vars

-----------------------------------------------------------------------------
(* GuardSpec: a caller constructs file guards over fresh paths, moves them *)
(* and lets them go out of scope.                                          *)

GuardNames == {"g1", "g2", "g3"}
Paths == {"p", "q"}

\* A guard object: path_ ("" for the empty path), whether the object is yet
\* to be constructed ("none"), alive or destroyed ("gone"), and, for the
\* properties, whether the last thing that happened to it was to be moved
\* from.
NoGuard == [path_ |-> "", life |-> "none", moved |-> FALSE]

\* Neither the tape nor the sort variables are in use.
TapesIdle ==
  /\ tst = "idle"
  /\ args = <<>> /\ tp = <<>> /\ arr = <<>>
  /\ ret = [val |-> 0, err |-> "none", by |-> "none"]
  /\ rel = <<>>
  /\ fault = NoFault
  /\ pc = "idle" /\ form = "ext" /\ cmp = "less" /\ chunk_size = 0
  /\ tapes = <<>> /\ info = NewInfo /\ vec = <<>> /\ vi = 0 /\ stack = <<>>
  /\ entry = <<>> /\ ops = <<>> /\ stat = <<>>

GInit ==
  /\ TapesIdle
  /\ guards = [g \in GuardNames |-> NoGuard]
  /\ files = {}
  /\ removed = {}
  /\ proc = <<>>

\* file_guard g(path): the file is created (or truncated)
GConstruct(g, path) ==
  /\ guards[g].life = "none"
  /\ path \notin files
  /\ \A h \in GuardNames : guards[h].path_ # path /\ <<h, path>> \notin removed
  /\ guards' = [guards EXCEPT ![g] = [path_ |-> path, life |-> "alive",
                                      moved |-> FALSE]]
  /\ files' = files \cup {path}
  /\ UNCHANGED <<removed, proc>>
  /\ UNCHANGED <<tapeVars, sortVars>>

\* file_guard dst(std::move(src)): path_(std::exchange(other.path_, ""))
GMoveConstruct(src, dst) ==
  /\ src # dst
  /\ guards[src].life = "alive"
  /\ guards[dst].life = "none"
  /\ guards' = [guards EXCEPT
                  ![dst] = [path_ |-> guards[src].path_, life |-> "alive",
                            moved |-> FALSE],
                  ![src] = [@ EXCEPT !.path_ = "", !.moved = TRUE]]
  /\ UNCHANGED <<files, removed, proc>>
  /\ UNCHANGED <<tapeVars, sortVars>>

\* dst = std::move(src): std::exchange(path_, other.path_) assigns other's
\* path to path_ and returns the old path_, which is dropped; other is not
\* written.
GMoveAssign(src, dst) ==
  /\ guards[src].life = "alive"
  /\ guards[dst].life = "alive"
  /\ guards' = IF src = dst THEN guards
               ELSE [guards EXCEPT
                       ![dst] = [@ EXCEPT !.path_ = guards[src].path_,
                                          !.moved = FALSE],
                       ![src] = [@ EXCEPT !.moved = TRUE]]
  /\ UNCHANGED <<files, removed, proc>>
  /\ UNCHANGED <<tapeVars, sortVars>>

\* ~file_guard: remove(path_, ec) unless the path is empty; it deletes the
\* file if there is one.
GDestroy(g) ==
  /\ guards[g].life = "alive"
  /\ guards' = [guards EXCEPT ![g].life = "gone"]
  /\ IF guards[g].path_ # "" /\ guards[g].path_ \in files
       THEN /\ files' = files \ {guards[g].path_}
            /\ removed' = removed \cup {<<g, guards[g].path_>>}
       ELSE UNCHANGED <<files, removed>>
  /\ UNCHANGED proc
  /\ UNCHANGED <<tapeVars, sortVars>>

GNextStep ==
  \/ \E g \in GuardNames, path \in Paths : GConstruct(g, path)
  \/ \E src \in GuardNames, dst \in GuardNames : GMoveConstruct(src, dst)
  \/ \E src \in GuardNames, dst \in GuardNames : GMoveAssign(src, dst)
  \/ \E g \in GuardNames : GDestroy(g)

GuardSpec == GInit /\ [][GNextStep]_vars

-----------------------------------------------------------------------------
(* MainSpec: main() of tape-sort.  proc is [pc, argc, ext, fails, hit,     *)
(* code, diag]: the statement main is at, argc, whether N > chunk_size, the *)
(* operation that fails in this run, whether it has failed yet, the exit   *)
(* code (-1 while running) and whether a diagnostic went to std::cerr.     *)

\* The operation that fails: opening the input or the output file, parsing
\* argv[3] or argv[4], reading the config file, extending the output tape in
\* its constructor, creating the directory of a temporary file, opening a
\* temporary file, extending a temporary tape in its constructor, a tape
\* operation of sort(), tout.flush(); or none.
Failures ==
  {"none", "open_in", "open_out", "size_arg", "mem_arg", "config",
   "extend_out", "tmp_dir", "open_tmp", "extend_tmp", "sort", "flush"}

Argcs == 1 .. 6

MInit ==
  /\ TapesIdle
  /\ guards = <<>> /\ files = {} /\ removed = {}
  /\ proc \in [pc : {"args"}, argc : Argcs, ext : BOOLEAN, fails : Failures,
                hit : {FALSE}, code : {-1}, diag : {FALSE}]

\* The operation `what` goes wrong in this run.
Fails(what) == proc.fails = what

\* std::cerr << ...; return code;
Leave(code, hit) ==
  proc' = [proc EXCEPT !.pc = "exit", !.code = code, !.diag = (code # 0),
                       !.hit = hit]

\* An exception of type e leaves the statement main is at: inside the try
\* block the two handlers of lines 146-152 print and return 1, anywhere else
\* nothing catches it and std::terminate ends the process.
Throw(e, in_try) ==
  IF in_try /\ e \in {"io_exception", "filesystem_error"}
    THEN Leave(1, TRUE)
    ELSE proc' = [proc EXCEPT !.pc = "terminated", !.hit = TRUE]

Goto(l) == proc' = [proc EXCEPT !.pc = l]

\* main() touches nothing else of the model.
MFrame ==
  /\ UNCHANGED <<guards, files, removed>>
  /\ UNCHANGED <<tapeVars, sortVars>>

\* lines 75-82
MCheckArgs ==
  /\ proc.pc = "args"
  /\ IF proc.argc > 5 \/ proc.argc < 3 THEN Leave(1, FALSE)
     ELSE Goto("open_in")
  /\ MFrame

\* lines 84-88
MOpenIn ==
  /\ proc.pc = "open_in"
  /\ IF Fails("open_in") THEN Leave(1, TRUE) ELSE Goto("open_out")
  /\ MFrame

\* lines 90-94
MOpenOut ==
  /\ proc.pc = "open_out"
  /\ IF Fails("open_out") THEN Leave(1, TRUE) ELSE Goto("params")
  /\ MFrame

\* lines 96-120: N, M and the delays
MParams ==
  /\ proc.pc = "params"
  /\ IF \/ proc.argc > 3 /\ Fails("size_arg")
        \/ proc.argc > 4 /\ Fails("mem_arg")
        \/ Fails("config")
       THEN Leave(1, TRUE)
       ELSE Goto("tapes")
  /\ MFrame

\* lines 122-123: tin is read-only and its constructor extends nothing; the
\* constructor of tout extends the stream to N cells
MTapes ==
  /\ proc.pc = "tapes"
  /\ IF Fails("extend_out") THEN Throw("io_exception", FALSE) ELSE Goto("try")
  /\ MFrame

\* lines 126-127
MSortRam ==
  /\ proc.pc = "try"
  /\ ~proc.ext
  /\ IF Fails("sort") THEN Throw("io_exception", TRUE) ELSE Leave(0, FALSE)
  /\ MFrame

\* lines 129-138: the three guards and the three streams
MScratchFiles ==
  /\ proc.pc = "try"
  /\ proc.ext
  /\ IF Fails("tmp_dir") THEN Throw("filesystem_error", TRUE)
     ELSE IF Fails("open_tmp") THEN Leave(1, TRUE)
     ELSE Goto("scratch_tapes")
  /\ MFrame

\* lines 139-141
MScratchTapes ==
  /\ proc.pc = "scratch_tapes"
  /\ IF Fails("extend_tmp") THEN Throw("io_exception", TRUE) ELSE Goto("sort")
  /\ MFrame

\* line 143
MSortExt ==
  /\ proc.pc = "sort"
  /\ IF Fails("sort") THEN Throw("io_exception", TRUE) ELSE Goto("flush")
  /\ MFrame

\* lines 144 and 154
MFlush ==
  /\ proc.pc = "flush"
  /\ IF Fails("flush") THEN Throw("io_exception", TRUE) ELSE Leave(0, FALSE)
  /\ MFrame

MNextStep ==
  \/ MCheckArgs
  \/ MOpenIn
  \/ MOpenOut
  \/ MParams
  \/ MTapes
  \/ MSortRam
  \/ MScratchFiles
  \/ MScratchTapes
  \/ MSortExt
  \/ MFlush

MainSpec == MInit /\ [][MNextStep]_vars

-----------------------------------------------------------------------------
(* Reading the tapes' cells, for the properties below.                     *)

Count(q, v) == Cardinality({k \in DOMAIN q : q[k] = v})
SameBag(p, q) ==
  /\ Len(p) = Len(q)
  /\ \A k \in DOMAIN p : Count(p, p[k]) = Count(q, p[k])

Scratch == {"t1", "t2", "t3"}

\* The input: the cells of `in` from its head to its end when sort() was called.
NumInput   == entry["in"].size - entry["in"].pos
InputCells == CellsOf(entry["in"], entry["in"].pos, NumInput)

\* The NumInput cells of `out` from the head it had when sort() was called.
OutputCells == CellsOf(tapes["out"], entry["out"].pos, NumInput)

\* All input cells compare equal under the comparator.
AllEqual(q) ==
  \A j \in DOMAIN q, k \in DOMAIN q :
     ~Compare(cmp, q[j], q[k]) /\ ~Compare(cmp, q[k], q[j])

Returned(f) == pc = "done" /\ form = f

-----------------------------------------------------------------------------
(* C1: when the external sort sort(in, out, t1, t2, t3, chunk_size, cmp)   *)
(* returns, the cells of `out` from its entry head are a permutation of    *)
(* the input cells and no cell is less than its predecessor under cmp.     *)
C1_ExternalSortCorrect ==
  Returned("ext") => /\ SameBag(OutputCells, InputCells)
                     /\ IsSorted(OutputCells)

\* A full-size input that was partitioned more than once and also took the
\* in-RAM branch has been sorted.
C1_Witness ==
  /\ Returned("ext")
  /\ NumInput = MaxN
  /\ stat.splits >= 2
  /\ stat.loads >= 1
  /\ ~IsSorted(InputCells)

(* C2: when the in-RAM sort sort(in, out, cmp) returns, it has read every  *)
(* input cell once, the cells of `out` from its entry head are a sorted    *)
(* permutation of them, and out's head is just past the last one.          *)
C2_RamSortCorrect ==
  Returned("ram") =>
    /\ ops["in"]["get"] = NumInput
    /\ SameBag(OutputCells, InputCells)
    /\ IsSorted(OutputCells)
    /\ tapes["out"].pos = entry["out"].pos + NumInput

C2_Witness ==
  /\ Returned("ram")
  /\ NumInput = MaxN
  /\ ~IsSorted(InputCells)
  /\ entry["out"].pos > 0

(* C3: neither sort form ever writes to `in` (no set() is issued on it and *)
(* its stream never changes), and when the sort returns in's head is where *)
(* it was at entry.                                                        *)
C3_InputPreserved ==
  /\ pc # "idle" => /\ ops["in"]["set"] = 0
                    /\ tapes["in"].stream = entry["in"].stream
  /\ pc = "done" => tapes["in"].pos = entry["in"].pos

C3_Witness ==
  /\ Returned("ext")
  /\ NumInput = MaxN
  /\ entry["in"].pos > 0
  /\ ops["in"]["get"] = MaxN
  /\ ops["in"]["seek"] = 1

(* C4: during the external sort no cell below the entry head of t1, t2 or  *)
(* t3 changes, and when it returns the three heads are at their entry      *)
(* positions.                                                              *)
C4_ScratchRestored ==
  form = "ext" =>
    \A n \in Scratch :
      /\ CellsOf(tapes[n], 0, entry[n].pos) = CellsOf(entry[n], 0, entry[n].pos)
      /\ pc = "done" => tapes[n].pos = entry[n].pos

\* All three scratch tapes were written (a split happened), one of them had
\* cells below its entry head, and the sort returned.
C4_Witness ==
  /\ Returned("ext")
  /\ stat.splits >= 1
  /\ \A n \in Scratch : ops[n]["set"] > 0
  /\ \E n \in Scratch : entry[n].pos > 0 /\ ops[n]["set"] > 0

(* C6: the external sort only ever puts to `out`: it issues no get, prev   *)
(* or seek on it, every step that writes `out` writes one cell at the head *)
(* and advances the head by one, so the head never moves backward and the  *)
(* k-th write goes to the k-th cell from the entry head; the cells below   *)
(* the entry head never change, and on return the head is NumInput past    *)
(* its entry position.                                                     *)
OutOnlyPuts ==
  form = "ext" =>
    /\ ops["out"]["get"] = 0 /\ ops["out"]["prev"] = 0 /\ ops["out"]["seek"] = 0
    /\ ops["out"]["next"] = ops["out"]["set"]
    /\ tapes["out"].pos = entry["out"].pos + ops["out"]["set"]
    /\ CellsOf(tapes["out"], 0, entry["out"].pos)
         = CellsOf(entry["out"], 0, entry["out"].pos)
    /\ pc = "done" => tapes["out"].pos = entry["out"].pos + NumInput

OutAppendStep ==
  form = "ext" =>
    /\ tapes'["out"].pos >= tapes["out"].pos
    /\ ops'["out"]["set"] - ops["out"]["set"] \in {0, 1}
    /\ ops'["out"]["set"] = ops["out"]["set"] + 1 =>
         /\ tapes'["out"].pos = tapes["out"].pos + 1
         /\ CellAt(tapes'["out"], tapes["out"].pos) = tapes'["out"].buffer
         /\ CellsOf(tapes'["out"], 0, tapes["out"].pos)
              = CellsOf(tapes["out"], 0, tapes["out"].pos)

C6_OutputAssembly == []OutOnlyPuts /\ [][OutAppendStep]_vars

C6_Witness ==
  /\ Returned("ext")
  /\ NumInput = MaxN
  /\ entry["out"].pos > 0
  /\ ops["out"]["set"] = MaxN
  /\ stat.splits >= 1

(* C7: on an input of n >= 1 cells that all compare equal, the external    *)
(* sort never calls split and never loads the vector, whatever the chunk   *)
(* size; when it returns it has moved the n cells by n peek+put pairs and  *)
(* `out` holds the input multiset.                                         *)
C7_EqualFastPath ==
  (form = "ext" /\ NumInput >= 1 /\ AllEqual(InputCells)) =>
    /\ stat.splits = 0
    /\ stat.loads = 0
    /\ vec = <<>>
    /\ pc = "done" => /\ stat.moved = NumInput
                      /\ ops["t1"]["prev"] = NumInput
                      /\ ops["t1"]["get"] = NumInput
                      /\ ops["out"]["set"] = NumInput
                      /\ SameBag(OutputCells, InputCells)

\* Equal under the comparator but not bit-equal, with a chunk size that would
\* otherwise admit the whole range to RAM.
C7_Witness ==
  /\ Returned("ext")
  /\ NumInput = MaxN
  /\ AllEqual(InputCells)
  /\ \E j \in DOMAIN InputCells : InputCells[j] # InputCells[1]
  /\ chunk_size = MaxChunk
  /\ stat.moved = MaxN

(* C8 (as stated): on an input of n >= 1 cells that all compare equal, the *)
(* external sort invokes the comparator exactly n - 1 times during         *)
(* ingestion and never inside sort_impl.                                   *)
C8_Original ==
  (Returned("ext") /\ NumInput >= 1 /\ AllEqual(InputCells)) =>
    /\ stat.ingest_cmp = NumInput - 1
    /\ stat.impl_cmp = 0

(* C8 (amended): on such an input the comparator is invoked exactly        *)
(* 2 * (n - 1) times during ingestion (update() tests both directions for  *)
(* each cell after the first) and never inside sort_impl.                  *)
C8_EqualInputComparisons ==
  (Returned("ext") /\ NumInput >= 1 /\ AllEqual(InputCells)) =>
    /\ stat.ingest_cmp = 2 * (NumInput - 1)
    /\ stat.impl_cmp = 0

C8_Witness ==
  /\ Returned("ext")
  /\ NumInput = MaxN
  /\ AllEqual(InputCells)
  /\ stat.ingest_cmp = 2 * (MaxN - 1)

-----------------------------------------------------------------------------
(* C5: the external sort terminates unless minimum pivots are chosen again *)
(* and again.  A partition whose pivot is a minimum of its range sends     *)
(* nothing to `left`; every other partition hands strictly smaller ranges  *)
(* to both recursive calls.  The model explores activations MaxDepth deep, *)
(* so "forever" reads: in every run the sort returns (or raises the        *)
(* io_exception of a short input stream), or the run is cut at MaxDepth    *)
(* nested partitions of which all but at most n - 1 had a minimum pivot.   *)

\* The activation partitioned its range by a minimum pivot.
MinPivot(f) ==
  /\ f.pc \in {"split", "after_left", "after_right"}
  /\ f.i = f.info.size
  /\ f.left_info.size = 0

\* The run is cut by the depth bound ...
CutAtMaxDepth ==
  /\ pc = "impl"
  /\ Len(stack) = MaxDepth
  /\ Top.pc = "split"
  /\ Top.i = Top.info.size

\* ... after minimum pivots in all but at most n - 1 of the nested partitions.
PivotStarved ==
  /\ CutAtMaxDepth
  /\ Cardinality({d \in 1 .. Len(stack) : MinPivot(stack[d])})
       >= MaxDepth - (info.size - 1)

C5_Termination == <>(pc = "done" \/ pc = "io_error" \/ PivotStarved)

\* With chunk_size 0 a full-size range was partitioned by a minimum pivot,
\* partitioned again, and the sort returned.
C5_Witness ==
  /\ Returned("ext")
  /\ chunk_size = 0
  /\ NumInput = MaxN
  /\ stat.splits >= MaxN
  /\ stat.moved = MaxN

-----------------------------------------------------------------------------
(* C9: a bidirectional tape reads as an array with a cursor.  arr is that  *)
(* array: the cells of the stream the tape was constructed over (bytes the *)
(* constructor appended read as 0), updated by every successful set().     *)
(* Every get() at a position below size returns arr at the cursor without  *)
(* raising, and the array is as long as the tape.                          *)
Bidirectional(o) == tp[o].rd /\ tp[o].wr

GetReadsArray ==
  \A o \in Objects :
    (Bidirectional(o) /\ TGet(o) /\ ~is_end(tp[o])) =>
       /\ ret'.err = "none"
       /\ ret'.val = arr[o][tp[o].pos + 1]

ArrayShape ==
  \A o \in Objects :
    (tst = "live" /\ Bidirectional(o)) => Len(arr[o]) = tp[o].size

C9_TapeAsArray == []ArrayShape /\ [][GetReadsArray]_vars

\* A tape at byte offset 5 whose two cells were both overwritten, the cursor
\* moved since, and the last get() returned the cell under the cursor.
C9_Witness ==
  /\ tst = "live"
  /\ \E o \in Objects :
       /\ Bidirectional(o)
       /\ tp[o].stream_offset = 5
       /\ tp[o].size = MaxSize
       /\ tp[o].pos = 0
       /\ arr[o][1] = 65535 /\ arr[o][MaxSize] = -1
       /\ tp[o].consistent
       /\ ret.val = 65535

(* C10: every tape object has 0 <= pos <= size in every state; next() at   *)
(* pos = size, prev() at pos = 0, seek(d) with pos + d outside [0, size],  *)
(* and get() or set() at pos = size fail their assert and leave the tape   *)
(* as it was; get() and set() below size do not fail an assert.            *)
HeadInvariant ==
  \A o \in Objects : tst # "idle" => 0 <= tp[o].pos /\ tp[o].pos <= tp[o].size

Aborts(o) == tst' = "aborted" /\ ret'.err = "assert" /\ tp'[o] = tp[o]

\* A step that is not the refusal Aborts(o) is none of the calls the contract
\* refuses; a step that fails an assert is no get() or set() below size.
ContractStep ==
  \A o \in Objects :
    /\ (is_end(tp[o]) /\ ~Aborts(o))
         => ~(TNext(o) \/ TGet(o) \/ \E v \in TValues : TSet(o, v))
    /\ (is_begin(tp[o]) /\ ~Aborts(o)) => ~TPrev(o)
    /\ \A diff \in TDiffs :
         (   (tp[o].pos + diff < 0 \/ tp[o].pos + diff > tp[o].size)
          /\ ~Aborts(o)) => ~TSeek(o, diff)
    /\ (~is_end(tp[o]) /\ ret'.err = "assert")
         => ~(TGet(o) \/ \E v \in TValues : TSet(o, v))

C10_HeadInvariant == []HeadInvariant /\ [][ContractStep]_vars

\* A seek from the interior of a tape to a position outside it was refused.
C10_Witness ==
  /\ tst = "aborted"
  /\ ret.by = "seek"
  /\ tp["a"].size = MaxSize
  /\ 0 < tp["a"].pos /\ tp["a"].pos < tp["a"].size

-----------------------------------------------------------------------------
(* C11: in every state of a tape, also one left by a get() or set() that   *)
(* raised io_exception, consistent implies that the medium holds a whole   *)
(* cell at pos and that buffer is the value of that cell.                  *)
HoldsCell(t, i) ==
  i < t.size /\ i * VALUE_SIZE + t.stream_offset + VALUE_SIZE <= Len(t.stream)

CacheInvariant(t) ==
  t.consistent => (HoldsCell(t, t.pos) /\ t.buffer = CellAt(t, t.pos))

C11_CacheInvariant ==
  \A o \in Objects : tst # "idle" => CacheInvariant(tp[o])

\* A set() whose write broke off left the cell different from the value the
\* tape had cached for it, and different from the value it was to write.
C11_Witness ==
  /\ tst = "live"
  /\ ret.err = "io" /\ ret.by = "set"
  /\ \E o \in Objects :
       /\ tp[o].failbit
       /\ ~tp[o].consistent
       /\ HoldsCell(tp[o], tp[o].pos)
       /\ tp[o].buffer = 65534
       /\ CellAt(tp[o], tp[o].pos) = 65535

-----------------------------------------------------------------------------
(* C12: the stream that release() returns has its read cursor (readable    *)
(* tape) and its write cursor (writable tape) at byte stream_offset of the *)
(* tape it was released from, the first byte of cell 0.                    *)
C12_ReleaseCursor ==
  tst = "released" =>
    /\ args.rd => rel.s.g = rel.stream_offset
    /\ args.wr => rel.s.p = rel.stream_offset

-----------------------------------------------------------------------------
(* C13: release() leaves the tape in the default empty state, pos = size   *)
(* = 0 with is_begin and is_end both true (every member but the unused     *)
(* buffer has its default value); a tape constructed over the              *)
(* released stream with the same size and offset holds the cells the       *)
(* released tape held, and every get() of the read-back returns the cell   *)
(* under the head.  A stream released with its failbit set makes the       *)
(* constructor of a writable tape raise; any other construction succeeds.  *)
ReleaseResets ==
  \A o \in Objects :
    TRelease(o) =>
      /\ tp'[o].pos = 0 /\ tp'[o].size = 0
      /\ is_begin(tp'[o]) /\ is_end(tp'[o])
      /\ tp'[o] = [DefaultTape(args.rd, args.wr) EXCEPT !.buffer = tp[o].buffer]

RoundTrip ==
  TReconstruct =>
    /\ ~(rel.s.failbit /\ args.wr) => ret'.err = "none"
    /\ ret'.err = "none" =>
         /\ tp'["a"].size = rel.size /\ tp'["a"].pos = 0
         /\ arr'["a"] = rel.cells
         /\ \A i \in 0 .. rel.size - 1 :
              HoldsCell(tp'["a"], i) => CellAt(tp'["a"], i) = rel.cells[i + 1]
         /\ args.wr => \A i \in 0 .. rel.size - 1 : HoldsCell(tp'["a"], i)

ReadsBack ==
  \A o \in Objects :
    (tst = "reread" /\ TGet(o) /\ HoldsCell(tp[o], tp[o].pos)) =>
       /\ ret'.err = "none"
       /\ ret'.val = arr[o][tp[o].pos + 1]

C13_ReleaseRoundTrip == [][ReleaseResets /\ RoundTrip /\ ReadsBack]_vars

\* A tape at byte offset 5 whose two cells were overwritten was released and
\* constructed again, and the read-back has reached its last cell.
C13_Witness ==
  /\ tst = "reread"
  /\ tp["a"].stream_offset = 5
  /\ tp["a"].size = MaxSize
  /\ tp["a"].pos = MaxSize - 1
  /\ arr["a"][1] = 65535 /\ arr["a"][MaxSize] = -1
  /\ tp["a"].consistent
  /\ ret.val = -1
  /\ tp["b"].size = 0

-----------------------------------------------------------------------------
(* C14: constructing a tape over a writable stream of fewer than           *)
(* stream_offset + 4 * size bytes appends zero bytes, a cell at a time,    *)
(* until the stream holds at least that many, and changes none of the      *)
(* bytes it held; a writable stream that is long enough and a read-only    *)
(* stream are left as they were.                                           *)
ExtendsOnConstruct ==
  (TConstruct /\ ret'.err = "none") =>
    LET before == args.stream
        after  == tp'["a"].stream
        needed == args.stream_offset + VALUE_SIZE * args.size
    IN  IF args.wr /\ Len(before) < needed
          THEN /\ Len(after) >= needed
               /\ Len(after) < needed + VALUE_SIZE
               /\ (Len(after) - Len(before)) % VALUE_SIZE = 0
               /\ SubSeq(after, 1, Len(before)) = before
               /\ \A k \in Len(before) + 1 .. Len(after) : after[k] = 0
          ELSE after = before

C14_ExtensionOnConstruction == [][ExtendsOnConstruct]_vars

\* A writable tape of two cells at byte offset 5 was constructed over a
\* stream of one cell: cells of zero bytes follow the cell it held.
C14_Witness ==
  /\ tst = "live"
  /\ args.wr
  /\ args.stream_offset = 5 /\ args.size = MaxSize
  /\ Len(args.stream) = VALUE_SIZE
  /\ tp["a"].stream = args.stream \o [k \in 1 .. (MaxSize + 1) * VALUE_SIZE |-> 0]
  /\ \E k \in 1 .. VALUE_SIZE : args.stream[k] # 0

-----------------------------------------------------------------------------
(* C15: a get() below size whose read meets the end of the stream (the     *)
(* read delivers no byte) raises nothing, returns 0 and leaves the         *)
(* stream's error flags clear.                                             *)
ZeroLengthRead(t) ==
  LET r == StreamRead(t.stream, t.pos * VALUE_SIZE + t.stream_offset)
  IN  ~t.consistent /\ ~r.ok /\ r.n = 0

ReadsZeroAtEnd ==
  \A o \in Objects :
    (TGet(o) /\ ~is_end(tp[o]) /\ ZeroLengthRead(tp[o])) =>
       /\ ret'.err = "none"
       /\ ret'.val = 0
       /\ ~tp'[o].failbit

C15_EndOfStreamRead == [][ReadsZeroAtEnd]_vars

-----------------------------------------------------------------------------
(* C16: a get() or set() whose byte-seek on the stream fails raises the    *)
(* seek error ("seek", seek_exception); one whose seek succeeds and whose  *)
(* read or write fails, and a flush() that fails, raise the io error       *)
(* ("io", io_exception).                                                   *)
SeekFails(t) ==
  ~StreamSeek(t.stream, t.pos * VALUE_SIZE + t.stream_offset)

ReadFails(t) ==
  ~StreamRead(t.stream, t.pos * VALUE_SIZE + t.stream_offset).ok

ErrorCategories ==
  \A o \in Objects :
    /\ (TGet(o) /\ ~is_end(tp[o]) /\ ~tp[o].consistent /\ SeekFails(tp[o]))
         => ret'.err = "seek"
    /\ (TGet(o) /\ ~is_end(tp[o]) /\ ~tp[o].consistent /\ ~SeekFails(tp[o])
          /\ ReadFails(tp[o]))
         => ret'.err = "io"
    /\ \A v \in TValues :
         /\ (TSet(o, v) /\ ~is_end(tp[o]) /\ SeekFails(tp[o]))
              => ret'.err = "seek"
         /\ \A k \in FaultBytes : (TSetFails(o, v, k) /\ ~SeekFails(tp[o]))
              => ret'.err = "io"
    /\ (TFlush(o) /\ tp[o].failbit) => ret'.err = "io"

C16_ErrorCategories == [][ErrorCategories]_vars

-----------------------------------------------------------------------------
(* C17: when a tape call raises io_exception during sort(), the call is    *)
(* the last tape call sort() makes (the calls that follow it in the same   *)
(* step are not made, and no step follows), sort() is left by the          *)
(* exception, each of the five tapes has 0 <= pos <= size and the cache    *)
(* invariant, and heads and cells stay where the calls made so far left    *)
(* them.                                                                   *)
SortTapeInvariant(n) ==
  /\ 0 <= tapes[n].pos /\ tapes[n].pos <= tapes[n].size
  /\ CacheInvariant(tapes[n])

CallsIn(n, kind) == ops'[n][kind] - ops[n][kind]

\* The call on tape n that raised: its stream is left with failbit set.
Raised(n) ==
  /\ tapes'[n].failbit
  /\ CallsIn(n, "get") + CallsIn(n, "set") = 1

RaiseStep ==
  (pc # "io_error" /\ pc' = "io_error") =>
    /\ \E n \in TapeNames :
         /\ Raised(n)
         /\ CallsIn(n, "next") = 0
         /\ CallsIn(n, "get") = 1 =>
              \A k \in TapeNames \ {n} : ops'[k] = ops[k]
         /\ CallsIn(n, "set") = 1 =>
              /\ ~tapes'[n].consistent
              /\ tapes'[n].pos = tapes[n].pos
    /\ \A k \in TapeNames :
         /\ ops'[k] = ops[k] => tapes'[k] = tapes[k]
         /\ tapes'[k].pos - tapes[k].pos = CallsIn(k, "next") - CallsIn(k, "prev")

Halted ==
  pc = "io_error" => (pc' = "io_error" /\ tapes' = tapes /\ ops' = ops)

C17_FailureSemantics ==
  /\ [](pc = "io_error" => \A n \in TapeNames : SortTapeInvariant(n))
  /\ [][RaiseStep /\ Halted]_vars

\* The second write on scratch tape t2 broke off inside split: the cell is
\* torn, the head of t2 is one cell past its entry position and the tape the
\* value was read from stays one cell below where the call found it.
C17_Witness ==
  /\ pc = "io_error"
  /\ fault.tape = "t2" /\ fault.after = 1
  /\ stat.splits >= 1
  /\ tapes["t2"].failbit /\ ~tapes["t2"].consistent
  /\ tapes["t2"].pos = entry["t2"].pos + 1
  /\ CellAt(tapes["t2"], tapes["t2"].pos) # 0
  /\ ops["t2"]["set"] = 2 /\ ops["t2"]["next"] = 1
  /\ tapes["t1"].pos < entry["t1"].pos + info.size

-----------------------------------------------------------------------------
(* C18: the constructor called with pos > size raises std::invalid_argument *)
(* and no tape comes into being; called with pos <= size it yields a tape  *)
(* of that size with the head at pos, and for pos < size the first get()   *)
(* of a readable tape returns cell pos of the stream (a read-only stream   *)
(* has to hold that cell).                                                 *)
ConstructionBounds ==
  TConstruct =>
    IF args.pos > args.size
      THEN /\ ret'.err = "arg"
           /\ tst' = "rejected"
           /\ tp' = tp
      ELSE /\ ret'.err = "none"
           /\ tst' = "live"
           /\ tp'["a"].pos = args.pos /\ tp'["a"].size = args.size
           /\ (args.pos < args.size /\ args.rd
                /\ (args.wr \/ HoldsCell(tp'["a"], args.pos))) =>
                LET first == get(tp'["a"])
                IN  /\ first.err = "none"
                    /\ first.val = CellOf(args.stream, args.stream_offset,
                                          args.pos)

C18_ConstructionBounds == [][ConstructionBounds]_vars

\* The constructor refused a head position one past the size of the tape.
C18_Witness ==
  /\ tst = "rejected"
  /\ ret.err = "arg" /\ ret.by = "tape"
  /\ args.pos = args.size + 1
  /\ args.size > 0
  /\ tp["a"].size = 0

-----------------------------------------------------------------------------
(* C19 as stated: between two movements of the head at most one read of    *)
(* the stream is issued however many get() are called; so a get() that     *)
(* read the stream is followed, with the head where it is, by a get() that *)
(* does not.                                                               *)
Reads(r) == Cardinality(Events(r.t.io, "read"))

OneReadPerPosition ==
  \A o \in Objects :
    (TGet(o) /\ Reads(get(tp[o])) > 0) => Reads(get(tp'[o])) = 0

LazyCache ==
  \A o \in Objects :
    /\ TGet(o) =>
         /\ Reads(get(tp[o])) <= 1
         /\ tp[o].consistent => Reads(get(tp[o])) = 0
         /\ ret'.err = "none" =>
              LET again == get(tp'[o])
              IN  /\ Reads(again) = 0
                  /\ again.err = "none" /\ again.val = ret'.val
                  /\ Quiet(again.t) = tp'[o]
         /\ ret'.err = "io" =>
              (~tp'[o].consistent /\ tp'[o].rd => Reads(get(tp'[o])) = 1)
    /\ \A v \in TValues :
         (TSet(o, v) /\ ret'.err = "none" /\ tp[o].rd) =>
            LET again == get(tp'[o])
            IN  /\ Reads(again) = 0
                /\ again.err = "none" /\ again.val = v
    /\ (tp[o].consistent /\ ~tp'[o].consistent) =>
         \/ tp'[o].pos # tp[o].pos
         \/ ret'.err = "io" /\ ret'.by = "set"
         \/ tp'[o].stream = <<>>

-----------------------------------------------------------------------------
(* C20: a get() that returns sleeps read_delay, also when the cell comes   *)
(* from the cache; a set() that returns sleeps write_delay; next() and     *)
(* prev() sleep next_delay; seek(d) sleeps rewind_delay +                  *)
(* rewind_step_delay * |d|.  The call sleeps once, after its last stream   *)
(* operation (a delay of 0 is not slept), and a call that raises does not  *)
(* sleep.                                                                  *)
Sleeps(r) == Events(r.t.io, "sleep")

ChargedOnce(r, ns) ==
  IF r.err # "none" \/ ns = 0
    THEN Sleeps(r) = {}
    ELSE /\ Sleeps(r) = {Len(r.t.io)}
         /\ r.t.io[Len(r.t.io)].arg = ns

\* Whatever call the caller makes next on a tape sleeps as stated.
LatencyAccounting(t) ==
  LET d == t.delays
  IN  /\ t.rd => ChargedOnce(get(t), d.read_delay)
      /\ t.wr =>
           \A v \in TValues :
             /\ ChargedOnce(set(t, v), d.write_delay)
             /\ \A k \in FaultBytes :
                  ~is_end(t) => Sleeps(set_fails(t, v, k)) = {}
      /\ ChargedOnce(next(t), d.next_delay)
      /\ ChargedOnce(prev(t), d.next_delay)
      /\ \A diff \in TDiffs :
           ChargedOnce(seek(t, diff),
                       d.rewind_delay + d.rewind_step_delay * Abs(diff))

C20_LatencyAccounting ==
  \A o \in Objects :
    tst \in {"live", "reread"} => LatencyAccounting(tp[o])

\* A tape with the delays of TestDelays, moved to the far end and back to
\* cell 0, has served a get() of a cell it had written.
C20_Witness ==
  /\ tst = "live"
  /\ ret.err = "none" /\ ret.val = -1
  /\ tp["a"].delays = TestDelays
  /\ tp["a"].delays.read_delay > 0
  /\ tp["a"].size = MaxSize /\ tp["a"].pos = 0
  /\ tp["a"].consistent /\ tp["a"].buffer = -1
  /\ arr["a"][MaxSize] = 65535

-----------------------------------------------------------------------------
(* C21: seek(d) sleeps min(MAX_SIZE_T, rewind_delay + rewind_step_delay *  *)
(* |d|) as computed over the unbounded integers: MAX_SIZE_T whenever the   *)
(* product or the sum exceeds it, never a wrapped value, and rewind_delay  *)
(* for d = 0.                                                              *)
\* min(MAX_SIZE_T, c + st * n) without a number above MAX_SIZE_T:
\* c + st * n <= MAX_SIZE_T iff n = 0 or st <= (MAX_SIZE_T - c) \div n.
SaturatedDelay(c, st, n) ==
  IF n # 0 /\ st > (MAX_SIZE_T - c) \div n THEN MAX_SIZE_T ELSE c + st * n

-----------------------------------------------------------------------------
\* The activation on top has run helpers::split to its return.
SplitReturned ==
  pc = "impl" /\ stack # <<>> /\ Top.pc = "split" /\ Top.i = Top.info.size

\* The cells split consumed: the info.size cells below the head `current` had
\* when the call began, nearest the head first (the order peek takes them).
Consumed(f) ==
  [k \in 1 .. f.info.size |-> CellAt(f.at[f.current], f.at[f.current].pos - k)]

\* The consumed cells that compare(value, key) sends left (side = TRUE) or
\* right (side = FALSE), in the order they were taken.
SentTo(f, side) ==
  LET c == Consumed(f)
      RECURSIVE Pick(_)
      Pick(k) == IF k > Len(c) THEN <<>>
                 ELSE IF Compare(cmp, c[k], f.info.element) = side
                        THEN <<c[k]>> \o Pick(k + 1)
                        ELSE Pick(k + 1)
  IN  Pick(1)

(* C22: when split(source, left, right, compare, key, n) returns, source's *)
(* head is n cells below where it was, the heads of left and right are up  *)
(* by the number of cells each received, and the sizes of the two          *)
(* summaries add up to n.                                                  *)
C22_SplitPostconditions ==
  SplitReturned =>
    LET f == Top
        n == f.info.size
    IN  /\ tapes[f.current].pos = f.at[f.current].pos - n
        /\ tapes[f.tmp1].pos = f.at[f.tmp1].pos + Len(SentTo(f, TRUE))
        /\ tapes[f.tmp2].pos = f.at[f.tmp2].pos + Len(SentTo(f, FALSE))
        /\ f.left_info.size = Len(SentTo(f, TRUE))
        /\ f.right_info.size = Len(SentTo(f, FALSE))
        /\ f.left_info.size + f.right_info.size = n

\* A nested split of a full-size range that sent cells both ways.
C22_Witness ==
  /\ SplitReturned
  /\ Len(stack) >= 2
  /\ Top.left_info.size > 0
  /\ Top.right_info.size > 0
  /\ Top.at[Top.tmp1].pos > 0

-----------------------------------------------------------------------------
\* The cells tape n holds between the head it had when the activation f began
\* and its head now: what f has written to it.
WrittenTo(f, n) == CellsOf(tapes[n], f.at[n].pos, tapes[n].pos - f.at[n].pos)

Range(q) == {q[k] : k \in DOMAIN q}

(* C23: when split returns, the cells it wrote to left are, as a multiset, *)
(* the consumed cells v with compare(v, key), the cells it wrote to right  *)
(* are the consumed cells with not compare(v, key), and the element of a   *)
(* summary of non-zero size is one of the values written to its side.      *)
C23_SplitPartition ==
  SplitReturned =>
    LET f == Top
    IN  /\ SameBag(WrittenTo(f, f.tmp1), SentTo(f, TRUE))
        /\ SameBag(WrittenTo(f, f.tmp2), SentTo(f, FALSE))
        /\ f.left_info.size > 0 =>
             f.left_info.element \in Range(WrittenTo(f, f.tmp1))
        /\ f.right_info.size > 0 =>
             f.right_info.element \in Range(WrittenTo(f, f.tmp2))

\* A split that wrote two different values to one side and kept the older of
\* them as that side's element.
C23_Witness ==
  /\ SplitReturned
  /\ \E n \in {Top.tmp1, Top.tmp2} :
       LET w == WrittenTo(Top, n)
           e == IF n = Top.tmp1 THEN Top.left_info.element
                                ELSE Top.right_info.element
       IN  Len(w) = 2 /\ w[1] # w[2] /\ e = w[1]

-----------------------------------------------------------------------------
\* The values the summary q describes, v being the values it was updated with.
Summarises(q, v) ==
  /\ q.size = Len(v)
  /\ q.equal <=> AllEqual(v)
  /\ Len(v) >= 1 => q.element \in Range(v)

\* The cells the external sort has copied from `in` to t1, one update() of
\* `info` each.
Ingested == CellsOf(entry["in"], entry["in"].pos, ops["t1"]["next"])

(* C24: a fresh subarray_info has size 0 and equal() true; after updates   *)
(* with v1 .. vn under a strict weak order its size is n, equal() is true  *)
(* exactly when every two of the values are equivalent, and for n >= 1 its *)
(* element is one of v1 .. vn.                                             *)
C24_SubarraySummary ==
  /\ NewInfo.size = 0 /\ NewInfo.equal
  /\ pc = "ingest" => Summarises(info, Ingested)
  /\ SplitReturned => /\ Summarises(Top.left_info, SentTo(Top, TRUE))
                      /\ Summarises(Top.right_info, SentTo(Top, FALSE))

\* Three values, equivalent under mod_cmp<2> but not all the same, were
\* summarised, and the element is not the first of them.
C24_Witness ==
  /\ pc = "ingest"
  /\ cmp = "mod2"
  /\ info.size = MaxN
  /\ info.equal
  /\ Cardinality(Range(Ingested)) > 1
  /\ info.element # Ingested[1]

-----------------------------------------------------------------------------
(* C25: in the external sort with chunk size c the in-memory vector never  *)
(* holds more than c cells, and cells are loaded into it only by an        *)
(* activation whose summary has size at most c (and no more of them than   *)
(* that size).                                                             *)
C25_RamBound ==
  form = "ext" =>
    /\ Len(vec) <= chunk_size
    /\ vec # <<>> => /\ pc = "impl" /\ stack # <<>>
                     /\ Top.pc \in {"load", "store"}
                     /\ Top.info.size <= chunk_size
                     /\ Len(vec) <= Top.info.size
    /\ (pc = "impl" /\ stack # <<>> /\ Top.pc = "load") =>
         Top.info.size <= chunk_size

\* The vector is full, for a range cut out of a larger one by a split.
C25_Witness ==
  /\ form = "ext"
  /\ chunk_size = MaxChunk
  /\ Len(vec) = chunk_size
  /\ stat.splits >= 1
  /\ Len(stack) >= 2
  /\ NumInput > chunk_size

-----------------------------------------------------------------------------
\* The summary after update() with v[1] .. v[k], the generator returning
\* d[1] .. d[k].
RECURSIVE SummaryOf(_, _, _)
SummaryOf(v, d, k) ==
  IF k = 0 THEN NewInfo
  ELSE update(SummaryOf(v, d, k - 1), v[k], d[k] = 0)

\* What the generator can return over n calls of update() on a fresh summary;
\* the calls draw independently, so these sequences are equally likely.
RECURSIVE DrawSeqs(_)
DrawSeqs(n) ==
  IF n = 0 THEN {<<>>}
  ELSE {Append(d, x) : d \in DrawSeqs(n - 1),
                       x \in Draws([NewInfo EXCEPT !.size = n - 1])}

\* Each draw sequence of Len(v) calls with the element it leaves.
Outcomes(v) ==
  {<<d, SummaryOf(v, d, Len(v)).element>> : d \in DrawSeqs(Len(v))}

(* C26: the i-th update() takes the new value with probability 1/i, and    *)
(* after n >= 1 updates with distinct values v1 .. vn the element is vj    *)
(* with probability exactly 1/n, for every j: of the equally likely draw   *)
(* sequences, one in n leaves vj as the element.                           *)
C26_ReservoirUniformity ==
  pc = "sample" =>
    LET n   == Len(vec)
        all == Outcomes(vec)
    IN  /\ info = SummaryOf(vec, stat, n)
        /\ Cardinality(Draws(info)) = n + 1
        /\ \A j \in 1 .. n :
             Cardinality({o \in all : o[2] = vec[j]}) * n = Cardinality(all)

\* After the last update the element is a value from the middle of the
\* sequence, kept through two later draws.
C26_Witness ==
  /\ pc = "sample"
  /\ Len(vec) = MaxUpdates
  /\ info.element = vec[2]
  /\ stat[3] # 0 /\ stat[4] # 0

-----------------------------------------------------------------------------
\* What a move of the tape `before` leaves: d is the destination, s the source
\* afterwards.
Moved(before, d, s) ==
  /\ d.size = before.size
  /\ d.pos = before.pos
  /\ d.stream_offset = before.stream_offset
  /\ CellsOf(d, 0, d.size) = CellsOf(before, 0, before.size)
  /\ (before.rd /\ ~is_end(before)) =>
       /\ get(d).val = get(before).val
       /\ get(d).err = get(before).err
  /\ s.pos = 0 /\ s.size = 0
  /\ is_begin(s) /\ is_end(s)

MoveStep ==
  \A src \in Objects, dst \in Objects :
    (TMove(src, dst) \/ TMoveConstruct(src, dst))
      => Moved(tp[src], tp'[dst], tp'[src])

(* C27: after a move construction or a move assignment the destination has *)
(* the size, the head position, the stream offset and the cells the source *)
(* had, and the source is empty: its pos and its size are 0.               *)
C27_TapeMove == [][MoveStep]_vars

\* A written tape with its head inside and its cells at an offset of the
\* stream was moved into a new tape: the source is empty and has lost its
\* delays as well.
C27_Witness ==
  /\ tst = "live"
  /\ tp["b"].size = MaxSize
  /\ tp["b"].pos = 1
  /\ tp["b"].stream_offset > 0
  /\ CellAt(tp["b"], 0) = 65535
  /\ tp["a"].size = 0 /\ tp["a"].pos = 0
  /\ tp["a"].delays = NoDelays

-----------------------------------------------------------------------------
\* A move leaves the source guard with the empty path.
GuardMoveStep ==
  \A src \in GuardNames, dst \in GuardNames :
    (src # dst /\ (GMoveConstruct(src, dst) \/ GMoveAssign(src, dst)))
      => guards'[src].path_ = ""

\* The destructor of a moved-from guard removes nothing.
GuardDestroyStep ==
  \A g \in GuardNames :
    (guards[g].moved /\ GDestroy(g)) => (files' = files /\ removed' = removed)

\* No path has been removed by two guards.
OneRemoval ==
  \A g \in GuardNames, h \in GuardNames, path \in Paths :
    (<<g, path>> \in removed /\ <<h, path>> \in removed) => g = h

(* C28: after a file_guard is move-constructed or move-assigned from       *)
(* another guard the source's path is empty and the source's destructor    *)
(* removes nothing, and no path is removed by more than one guard.         *)
C28_FileGuardMove ==
  []OneRemoval /\ [][GuardMoveStep /\ GuardDestroyStep]_vars

-----------------------------------------------------------------------------
(* C29: every I/O failure in main() -- opening the input, the output or a  *)
(* scratch file, an io_exception from the constructor of the output tape   *)
(* or of a scratch tape, from sort() or from the final flush -- ends the   *)
(* process with exit code 1 after a diagnostic and never with an uncaught  *)
(* exception; a run in which nothing fails exits with 0.                   *)
C29_ExitCodes ==
  /\ proc.pc # "terminated"
  /\ proc.pc = "exit" =>
       IF proc.hit THEN proc.code = 1 /\ proc.diag
       ELSE proc.argc \in 3 .. 5 => proc.code = 0

-----------------------------------------------------------------------------
\* The activation on top is about to return from sort_impl.
AboutToReturn == pc = "impl" /\ stack # <<>> /\ Finished(Top)

(* C30: when sort_impl(out, current, tmp1, tmp2, info, ...) returns,       *)
(* current's head is info.size cells below where it was at the call, out's *)
(* head is info.size cells above, and tmp1 and tmp2 have their heads and   *)
(* every cell below their heads as they were at the call.                  *)
C30_RecursionContract ==
  AboutToReturn =>
    LET f == Top
        n == f.info.size
    IN  /\ tapes[f.current].pos = f.at[f.current].pos - n
        /\ tapes["out"].pos = f.at["out"].pos + n
        /\ \A t \in {f.tmp1, f.tmp2} :
             /\ tapes[t].pos = f.at[t].pos
             /\ CellsOf(tapes[t], 0, f.at[t].pos)
                  = CellsOf(f.at[t], 0, f.at[t].pos)

\* A nested call that split its range returns: both its scratch tapes were
\* written above heads that had cells below them.
C30_Witness ==
  /\ AboutToReturn
  /\ Len(stack) >= 2
  /\ Top.pc = "after_right"
  /\ Top.left_info.size > 0 /\ Top.right_info.size > 0
  /\ Top.at[Top.tmp1].pos > 0
  /\ Top.at[Top.tmp2].pos > 0

-----------------------------------------------------------------------------
\* No cell of c is less than p under the comparator.
IsMinimum(p, c) == \A k \in DOMAIN c : ~Compare(cmp, c[k], p)

(* C31: in every partition step of sort_impl (the range of n cells is not  *)
(* all-equal and n > chunk_size) the pivot is a value of the range, the    *)
(* right partition is not empty and the left one has fewer than n cells;   *)
(* the right partition has fewer than n cells exactly when the pivot is    *)
(* not a minimum of the range, and when it is a minimum the left partition *)
(* is empty and the right one holds the same n cells.                      *)
C31_PartitionProgress ==
  SplitReturned =>
    LET f     == Top
        n     == f.info.size
        range == Consumed(f)
        pivot == f.info.element
    IN  /\ ~AllEqual(range) /\ n > chunk_size
        /\ pivot \in Range(range)
        /\ f.right_info.size > 0
        /\ f.left_info.size < n
        /\ f.right_info.size < n <=> ~IsMinimum(pivot, range)
        /\ IsMinimum(pivot, range) =>
             /\ f.left_info.size = 0
             /\ WrittenTo(f, f.tmp1) = <<>>
             /\ SameBag(WrittenTo(f, f.tmp2), range)

\* A full-size range was partitioned by a pivot that is a minimum but not
\* the only value: the right partition is the whole range again.
C31_Witness ==
  /\ SplitReturned
  /\ Top.info.size = MaxN
  /\ IsMinimum(Top.info.element, Consumed(Top))
  /\ Top.right_info.size = MaxN
  /\ Cardinality(Range(Consumed(Top))) = MaxN

-----------------------------------------------------------------------------
\* The cells tape t has from its head to its end.
FreeCells(t) == t.size - t.pos

\* When sort() was called every scratch tape and `out` had room for the input.
HasCapacity ==
  \A n \in Scratch \cup {"out"} : FreeCells(entry[n]) >= NumInput

(* C32: if at entry each of t1, t2, t3 and `out` has at least n free cells *)
(* from its head to its end (n the number of input cells), then during the *)
(* external sort no put is attempted at the end of a tape and no peek at   *)
(* the beginning of one: no assert of a tape method fails, and the head of *)
(* every scratch tape stays between its entry head and n cells above it.   *)
C32_ScratchCapacity ==
  (form = "ext" /\ HasCapacity) =>
    /\ pc # "aborted"
    /\ \A n \in Scratch :
         /\ entry[n].pos <= tapes[n].pos
         /\ tapes[n].pos <= entry[n].pos + NumInput
    /\ tapes["out"].pos <= entry["out"].pos + NumInput

\* A scratch tape with no cell to spare was filled to its end by a partition
\* of the whole input, above a head that had cells below it.
C32_Witness ==
  /\ form = "ext" /\ pc = "impl"
  /\ NumInput = MaxN
  /\ stat.splits >= 1
  /\ entry["t3"].pos > 0
  /\ FreeCells(entry["t3"]) = NumInput
  /\ is_end(tapes["t3"])

-----------------------------------------------------------------------------
\* The calls that move the head of t, and their outcomes.
Movements(t) ==
  {next(t), prev(t)} \cup {seek(t, diff) : diff \in TDiffs \ {0}}

\* Nothing is cached in t, and a get() of t reads the stream, once, for the
\* cell at t's head.
Refetches(t) ==
  /\ ~t.consistent
  /\ (t.rd /\ ~is_end(t)) =>
       LET g == get(Quiet(t))
       IN  /\ Reads(g) = 1
           /\ g.err = "none" => g.val = CellAt(t, t.pos)

CacheInvalidation(t) ==
  /\ \A r \in Movements(t) : r.err = "none" => Refetches(r.t)
  /\ LET r == seek(t, 0)
     IN  /\ r.err = "none"
         /\ r.t.pos = t.pos
         /\ r.t.consistent = t.consistent
         /\ r.t.buffer = t.buffer

(* C33: next(), prev() and seek(d) with d # 0 clear the cached-cell flag,  *)
(* so that the next get() reads the backing stream again, at the new       *)
(* position; seek(0) changes neither pos nor the flag nor the buffer.      *)
C33_CacheInvalidation ==
  \A o \in Objects :
    tst \in {"live", "reread"} => CacheInvalidation(tp[o])

\* A read-only tape served a get() at cell 0 and moved to cell 1: the value
\* of cell 0 is still in the buffer, not marked as cached, and cell 1 holds
\* another value.
C33_Witness ==
  /\ tst = "live"
  /\ ~tp["a"].wr
  /\ tp["a"].size = MaxSize /\ tp["a"].pos = 1
  /\ ~tp["a"].consistent
  /\ tp["a"].buffer = CellAt(tp["a"], 0)
  /\ tp["a"].buffer # CellAt(tp["a"], 1)
  /\ tp["a"].buffer # 0

-----------------------------------------------------------------------------
\* The cells lo .. hi - 1 of tape t, left to right.
Cells(t, lo, hi) == [j \in 1 .. hi - lo |-> CellAt(t, lo + j - 1)]

Reversed(v) == [j \in 1 .. Len(v) |-> v[Len(v) + 1 - j]]

\* vec_to_tape(v, t) took t from tape `before` to tape `after`.
Stored(v, before, after) ==
  /\ after.pos = before.pos + Len(v)
  /\ Cells(after, before.pos, after.pos) = v
  /\ Cells(after, 0, before.pos) = Cells(before, 0, before.pos)

\* tape_to_vec(t, k) took t from tape `before` to tape `after` and
\* returned v.
Taken(k, before, after, v) ==
  LET n == IF k < before.pos THEN k ELSE before.pos
  IN  /\ Len(v) = n
      /\ v = Reversed(Cells(before, before.pos - n, before.pos))
      /\ after.pos = before.pos - n

(* C34: vec_to_tape(v, t) writes v left to right from t's head and advances *)
(* the head by |v|; tape_to_vec(t, k) returns the min(k, pos) cells just    *)
(* below the head, in reverse of their order on the tape, and moves the     *)
(* head back by that count; so vec_to_tape(v, t) followed by                *)
(* tape_to_vec(t, |v|) yields reverse(v) and restores the head.             *)
C34_TransferRoundTrip ==
  pc = "returned" =>
    /\ Stored(vec, entry["t1"], Top.at["t1"])
    /\ Taken(Top.info.size, Top.at["t1"], tapes["t1"], Top.vec)
    /\ Top.info.size = Len(vec) =>
         /\ Top.vec = Reversed(vec)
         /\ tapes["t1"].pos = entry["t1"].pos

\* Three cells, not all alike, were written above one older cell and read
\* back.
C34_Witness ==
  /\ pc = "returned"
  /\ entry["t1"].pos = 1
  /\ vec = <<0, 1, 2>>
  /\ Top.info.size = 3
  /\ Top.vec = <<2, 1, 0>>
  /\ tapes["t1"].pos = 1

-----------------------------------------------------------------------------
\* The activation partitions its range with split.
Partitions(f) == f.pc \in {"split", "after_left", "after_right"}

\* The activation sorts its range in RAM.
LoadsToRam(f) == f.pc \in {"load", "store"}

\* With chunk_size = 0: every activation whose range is neither empty nor
\* all-equal partitions it, and nothing is in RAM.
NeverLoads ==
  /\ stat.loads = 0
  /\ vec = <<>>
  /\ \A k \in DOMAIN stack :
       /\ ~LoadsToRam(stack[k])
       /\ (stack[k].info.size > 0 /\ ~AllEqual(Consumed(stack[k]))) =>
            Partitions(stack[k])

\* With chunk_size >= n: no split, and one activation that loads the n cells
\* of the input, sorts them and stores them.
LoadsOnce ==
  /\ stat.splits = 0
  /\ stat.loads = (IF pc \in {"impl", "done"} THEN 1 ELSE 0)
  /\ pc = "impl" =>
       /\ Len(stack) = 1
       /\ LoadsToRam(Top)
       /\ Top.info.size = NumInput
       /\ Top.pc = "load" => Len(vec) = Top.i
       /\ Top.pc = "store" => SameBag(vec, InputCells) /\ IsSorted(vec)
  /\ pc = "done" =>
       /\ ops["t1"]["get"] = NumInput
       /\ SameBag(OutputCells, InputCells) /\ IsSorted(OutputCells)

(* C35: with chunk_size = 0 every range that is neither empty nor          *)
(* all-equal is partitioned with split and no cell is ever loaded into     *)
(* RAM; with chunk_size >= n, for an input of n cells that are not all     *)
(* equal, the external sort performs no split and sorts the whole input    *)
(* with a single RAM load of n cells.                                      *)
C35_ChunkSizeSemantics ==
  (form = "ext" /\ pc \notin {"io_error", "aborted"}) =>
    /\ chunk_size = 0 => NeverLoads
    /\ (chunk_size >= NumInput /\ ~AllEqual(InputCells)) => LoadsOnce

\* An input of MaxChunk cells, not all equal, was sorted by one load with
\* chunk_size = MaxChunk.
C35_Witness ==
  /\ Returned("ext")
  /\ chunk_size = MaxChunk
  /\ NumInput = MaxChunk
  /\ ~AllEqual(InputCells)
  /\ stat.loads = 1 /\ stat.splits = 0

\* An input of MaxN cells was sorted by splits alone with chunk_size = 0.
C35_WitnessSplit ==
  /\ Returned("ext")
  /\ chunk_size = 0
  /\ NumInput = MaxN
  /\ stat.splits >= 2 /\ stat.loads = 0

====
